---- MODULE Spec2Model ----
(***************************************************************************)
(* Model of the CircuitVerse hybrid retrieval engine                       *)
(* (src/hybrid_search.py, src/baseline_search.py).                         *)
(*                                                                         *)
(* Text is a sequence of one-character strings.  Scores are exact          *)
(* rationals [n, d] in lowest terms (d > 0), so that the fusion formula,   *)
(* the max-normalisation and the comparisons of the ranking are computed   *)
(* without rounding.  Dense positions are 0-based as in the source.        *)
(***************************************************************************)
EXTENDS Integers, Sequences, FiniteSets, TLC

VARIABLES
    program,               \* the script that runs: "hybrid_search" | "baseline_search"
    circuits,              \* the corpus file's documents (json.load): a sequence
                           \* of references into Documents
    embeddings,            \* the embeddings file (np.load): its number of rows
    h_state,               \* HybridSearch handle: "none" | "ready" | "failed"
    enriched_texts,        \* HybridSearch.enriched_texts
    valid_indices,         \* HybridSearch.valid_indices (0-based positions)
    h_bm25,                \* HybridSearch.bm25: the tokenized corpus it indexes
    b_state,               \* BaselineSearch handle: "none" | "ready" | "failed"
    b_corpus,              \* BaselineSearch.corpus
    b_bm25,                \* BaselineSearch.bm25: the tokenized corpus it indexes
    pc,                    \* "idle" | "hybrid" | "baseline": whose result is held
    query,                 \* argument of the search call whose result is held
    top_k,                 \* argument of the search call whose result is held
    locals,                \* the score arrays of that call (created by the call)
    results,               \* the value the call returned
    previous,              \* the value the call before it returned, when the
                           \* caller repeats a call to compare the two
    call,                  \* the last call of a pure helper, with its result
    stats,                 \* self.stats of the data scripts: the counters
    errors,                \* self.errors of the data scripts: the entries appended
    req,                   \* the call of _make_request in progress or just returned
    job                    \* the run of a data script's main method: its arguments,
                           \* its locals and what it has built so far

vars == <<program, circuits, embeddings, h_state, enriched_texts, valid_indices, h_bm25,
          b_state, b_corpus, b_bm25, pc, query, top_k, locals, results, previous,
          call, stats, errors, req, job>>

engineVars == <<program, circuits, embeddings, h_state, enriched_texts, valid_indices, h_bm25,
                b_state, b_corpus, b_bm25, pc, query, top_k, locals, results,
                previous>>

pipelineVars == <<stats, errors, req, job>>

\* no call of _make_request is in progress
NoRequest ==
    [status |-> "none", attempt |-> 0, seen |-> <<>>, result |-> "None",
     requests_before |-> 0, errors_before |-> 0]

\* no data script runs
PipelineIdle ==
    /\ stats = <<>>
    /\ errors = <<>>
    /\ req = NoRequest
    /\ job = <<>>

-----------------------------------------------------------------------------
(* Bounds of the model *)

MaxDocs == 3       \* documents in the corpus file
MaxTopK == 3       \* largest top_k passed to search
MaxLen == 5        \* characters of a text handed to tokenize alone
MaxWords == 3      \* phrases concatenated into a query handed to the intent detector

-----------------------------------------------------------------------------
(* Characters: Python str.lower(), the regex classes \w and \s *)

LowerLetters ==
    {"a", "b", "c", "d", "e", "f", "g", "h", "i", "j", "k", "l", "m",
     "n", "o", "p", "q", "r", "s", "t", "u", "v", "w", "x", "y", "z"}

UpperLetters ==
    {"A", "B", "C", "D", "E", "F", "G", "H", "I", "J", "K", "L", "M",
     "N", "O", "P", "Q", "R", "S", "T", "U", "V", "W", "X", "Y", "Z"}

Digits == {"0", "1", "2", "3", "4", "5", "6", "7", "8", "9"}

Whitespace == {" ", "\t"}

\* str.lower() on one character
LowerChar(c) ==
    CASE c = "A" -> "a"
      [] c = "B" -> "b"
      [] c = "C" -> "c"
      [] c = "D" -> "d"
      [] c = "E" -> "e"
      [] c = "F" -> "f"
      [] c = "G" -> "g"
      [] c = "H" -> "h"
      [] c = "I" -> "i"
      [] c = "J" -> "j"
      [] c = "K" -> "k"
      [] c = "L" -> "l"
      [] c = "M" -> "m"
      [] c = "N" -> "n"
      [] c = "O" -> "o"
      [] c = "P" -> "p"
      [] c = "Q" -> "q"
      [] c = "R" -> "r"
      [] c = "S" -> "s"
      [] c = "T" -> "t"
      [] c = "U" -> "u"
      [] c = "V" -> "v"
      [] c = "W" -> "w"
      [] c = "X" -> "x"
      [] c = "Y" -> "y"
      [] c = "Z" -> "z"
      [] OTHER -> c

\* str.lower()
Lower(s) == [i \in 1..Len(s) |-> LowerChar(s[i])]

\* \w of a Python 3 str pattern: letters, digits and the underscore
WordChars == LowerLetters \cup UpperLetters \cup Digits \cup {"_"}

IsWordChar(c) == c \in WordChars

\* \s
IsSpaceChar(c) == c \in Whitespace

-----------------------------------------------------------------------------
(* tokenize *)

\* re.sub(r'[^\w\s]', ' ', s)
SubNonWord(s) ==
    [i \in 1..Len(s) |-> IF IsWordChar(s[i]) \/ IsSpaceChar(s[i]) THEN s[i] ELSE " "]

\* str.split(): the maximal runs of non-whitespace characters, in order
RECURSIVE SplitFrom(_, _, _)
SplitFrom(s, i, cur) ==
    IF i > Len(s)
    THEN IF cur = <<>> THEN <<>> ELSE <<cur>>
    ELSE IF IsSpaceChar(s[i])
         THEN (IF cur = <<>> THEN <<>> ELSE <<cur>>) \o SplitFrom(s, i + 1, <<>>)
         ELSE SplitFrom(s, i + 1, Append(cur, s[i]))

Split(s) == SplitFrom(s, 1, <<>>)

\* [t for t in tokens if t and len(t) > 1]
KeepLong(ts) == SelectSeq(ts, LAMBDA t : t # <<>> /\ Len(t) > 1)

\* a variant that splits before it replaces the punctuation
tokenize_split_first(text) ==
    IF text = <<>> THEN <<>>
    ELSE LET ts == KeepLong(Split(Lower(text)))
         IN  [i \in 1..Len(ts) |-> SubNonWord(ts[i])]

tokenize(text) ==
    IF text = <<>> THEN <<>> ELSE KeepLong(Split(SubNonWord(Lower(text))))

\* a variant of the baseline's tokenizer without the filter on one-character
\* tokens
baseline_tokenize_keep_short(text) ==
    IF text = <<>> THEN <<>>
    ELSE SelectSeq(Split(SubNonWord(Lower(text))), LAMBDA t : t # <<>>)

\* tokenize of baseline_search.py: the empty text gives [], otherwise the
\* lowercased text with every character outside [\w\s] replaced by a space is
\* split at whitespace and the tokens longer than one character are kept
baseline_tokenize(text) ==
    IF text = <<>> THEN <<>>
    ELSE SelectSeq(Split(SubNonWord(Lower(text))), LAMBDA t : t # <<>> /\ Len(t) > 1)

\* ' '.join(tokens)
RECURSIVE Join(_)
Join(ts) ==
    IF ts = <<>> THEN <<>>
    ELSE IF Len(ts) = 1 THEN ts[1]
    ELSE ts[1] \o <<" ">> \o Join(Tail(ts))

-----------------------------------------------------------------------------
(* Exact rational arithmetic for the scores *)

RECURSIVE GCD(_, _)
GCD(a, b) == IF b = 0 THEN a ELSE GCD(b, a % b)

Abs(x) == IF x < 0 THEN -x ELSE x

\* n/d in lowest terms, d > 0
Rat(n, d) ==
    LET g == GCD(Abs(n), Abs(d))
        s == IF d < 0 THEN -1 ELSE 1
    IN  [n |-> (s * n) \div g, d |-> (s * d) \div g]

RZero == Rat(0, 1)
RHalf == Rat(1, 2)
ROne == Rat(1, 1)

RAdd(x, y) == Rat(x.n * y.d + y.n * x.d, x.d * y.d)
RMul(x, y) == Rat(x.n * y.n, x.d * y.d)
RDiv(x, y) == Rat(x.n * y.d, x.d * y.n)
RLess(x, y) == x.n * y.d < y.n * x.d
RLeq(x, y) == x.n * y.d <= y.n * x.d

\* ndarray.max() of a non-empty array a over the index set D
ArrayMax(a, D) == CHOOSE m \in {a[i] : i \in D} : \A i \in D : RLeq(a[i], m)

-----------------------------------------------------------------------------
(* HybridSearch.COMPONENT_KEYWORDS, in insertion order.  A 'match' given as  *)
(* one string in the source is the one-element list that                    *)
(* _calculate_component_score makes of it; a rule without 'opposite' has    *)
(* opposite = NoComponent, what dict.get returns for it being falsy.        *)

NoComponent == ""

KW_multiplexer == <<"m", "u", "l", "t", "i", "p", "l", "e", "x", "e", "r">>
KW_mux == <<"m", "u", "x">>
KW_demultiplexer == <<"d", "e", "m", "u", "l", "t", "i", "p", "l", "e", "x", "e", "r">>
KW_demux == <<"d", "e", "m", "u", "x">>
KW_flip_flop == <<"f", "l", "i", "p", " ", "f", "l", "o", "p">>
KW_latch == <<"l", "a", "t", "c", "h">>
KW_memory_element == <<"m", "e", "m", "o", "r", "y", " ", "e", "l", "e", "m", "e", "n", "t">>
KW_adder == <<"a", "d", "d", "e", "r">>
KW_display == <<"d", "i", "s", "p", "l", "a", "y">>
KW_seven_segment == <<"s", "e", "v", "e", "n", " ", "s", "e", "g", "m", "e", "n", "t">>
KW_counter == <<"c", "o", "u", "n", "t", "e", "r">>
KW_decoder == <<"d", "e", "c", "o", "d", "e", "r">>

COMPONENT_KEYWORDS == <<
    [keyword |-> KW_multiplexer, match |-> <<"Multiplexer">>,
     opposite |-> "Demultiplexer"],
    [keyword |-> KW_mux, match |-> <<"Multiplexer">>,
     opposite |-> "Demultiplexer"],
    [keyword |-> KW_demultiplexer, match |-> <<"Demultiplexer">>,
     opposite |-> "Multiplexer"],
    [keyword |-> KW_demux, match |-> <<"Demultiplexer">>,
     opposite |-> "Multiplexer"],
    [keyword |-> KW_flip_flop, match |-> <<"DflipFlop", "JKflipFlop", "SRflipFlop", "TflipFlop">>,
     opposite |-> NoComponent],
    [keyword |-> KW_latch, match |-> <<"DflipFlop", "SRflipFlop">>,
     opposite |-> NoComponent],
    [keyword |-> KW_memory_element, match |-> <<"DflipFlop", "JKflipFlop", "SRflipFlop", "TflipFlop", "Ram", "EEPROM">>,
     opposite |-> NoComponent],
    [keyword |-> KW_adder, match |-> <<"FullAdder", "HalfAdder">>,
     opposite |-> NoComponent],
    [keyword |-> KW_display, match |-> <<"SevenSegDisplay", "HexDisplay", "DigitalLed">>,
     opposite |-> NoComponent],
    [keyword |-> KW_seven_segment, match |-> <<"SevenSegDisplay">>,
     opposite |-> NoComponent],
    [keyword |-> KW_counter, match |-> <<"Counter">>,
     opposite |-> NoComponent],
    [keyword |-> KW_decoder, match |-> <<"Decoder">>,
     opposite |-> NoComponent]
    >>

\* the component types the table names
ComponentTypes ==
    UNION {{COMPONENT_KEYWORDS[i].match[j] : j \in 1..Len(COMPONENT_KEYWORDS[i].match)} :
           i \in 1..Len(COMPONENT_KEYWORDS)}

\* Python None, as the value _detect_component_intent returns for no intent
None == [keyword |-> <<>>, match |-> <<>>, opposite |-> NoComponent]

\* `k in s` for two strings
IsSubstring(k, s) ==
    \E i \in 0..(Len(s) - Len(k)) : SubSeq(s, i + 1, i + Len(k)) = k

\* the table scan of _detect_component_intent from rule i on, over the
\* string q, in the order given by the sequence tbl
RECURSIVE ScanTable(_, _, _)
ScanTable(tbl, q, i) ==
    IF i > Len(tbl) THEN None
    ELSE IF IsSubstring(tbl[i].keyword, q) THEN tbl[i]
    ELSE ScanTable(tbl, q, i + 1)

\* the position of the first occurrence of k in s (0-based), Len(s) if none
FirstOccurrence(k, s) ==
    IF IsSubstring(k, s)
    THEN CHOOSE i \in 0..(Len(s) - Len(k)) :
             /\ SubSeq(s, i + 1, i + Len(k)) = k
             /\ \A j \in 0..(i - 1) : SubSeq(s, j + 1, j + Len(k)) # k
    ELSE Len(s)

\* a variant that returns the rule whose keyword occurs leftmost in the query
detect_leftmost(q) ==
    LET ql == Lower(q)
        hits == {i \in 1..Len(COMPONENT_KEYWORDS) :
                     IsSubstring(COMPONENT_KEYWORDS[i].keyword, ql)}
    IN  IF hits = {} THEN None
        ELSE COMPONENT_KEYWORDS[
                 CHOOSE i \in hits : \A j \in hits :
                     \/ FirstOccurrence(COMPONENT_KEYWORDS[i].keyword, ql)
                            < FirstOccurrence(COMPONENT_KEYWORDS[j].keyword, ql)
                     \/ /\ FirstOccurrence(COMPONENT_KEYWORDS[i].keyword, ql)
                            = FirstOccurrence(COMPONENT_KEYWORDS[j].keyword, ql)
                        /\ i <= j]

\* a variant that returns the rule with the longest keyword the query holds
detect_longest(q) ==
    LET ql == Lower(q)
        hits == {i \in 1..Len(COMPONENT_KEYWORDS) :
                     IsSubstring(COMPONENT_KEYWORDS[i].keyword, ql)}
    IN  IF hits = {} THEN None
        ELSE COMPONENT_KEYWORDS[
                 CHOOSE i \in hits : \A j \in hits :
                     \/ Len(COMPONENT_KEYWORDS[i].keyword) > Len(COMPONENT_KEYWORDS[j].keyword)
                     \/ /\ Len(COMPONENT_KEYWORDS[i].keyword) = Len(COMPONENT_KEYWORDS[j].keyword)
                        /\ i <= j]

_detect_component_intent(q) == ScanTable(COMPONENT_KEYWORDS, Lower(q), 1)

\* the loop `for comp in match_components: if comp in breakdown: return 1.0`
AnyMatch(match_components, breakdown) ==
    \E j \in 1..Len(match_components) : match_components[j] \in breakdown

\* a variant that tests the opposite type before the match set
component_score_opposite_first(circuit, component_intent) ==
    IF component_intent = None THEN RHalf
    ELSE LET breakdown == circuit.component_breakdown
             opposite == component_intent.opposite
         IN  IF opposite # NoComponent /\ opposite \in breakdown THEN RZero
             ELSE IF AnyMatch(component_intent.match, breakdown) THEN ROne
             ELSE RHalf

\* a variant that gives 0 when no component of the match set is present
component_score_miss_zero(circuit, component_intent) ==
    IF component_intent = None THEN RHalf
    ELSE IF AnyMatch(component_intent.match, circuit.component_breakdown) THEN ROne
    ELSE RZero

\* a variant that gives 0 when no intent is detected
component_score_none_zero(circuit, component_intent) ==
    IF component_intent = None THEN RZero
    ELSE LET breakdown == circuit.component_breakdown
         IN  IF AnyMatch(component_intent.match, breakdown) THEN ROne
             ELSE IF component_intent.opposite # NoComponent
                     /\ component_intent.opposite \in breakdown THEN RZero
             ELSE RHalf

\* `comp in breakdown` and `opposite in breakdown` raise TypeError when
\* circuit.get('component_breakdown', {}) is None, the key holding null
ComponentScoreRaises(circuit, component_intent) ==
    /\ component_intent # None
    /\ "component_breakdown" \in circuit.null_keys
    /\ (component_intent.match # <<>> \/ component_intent.opposite # NoComponent)

\* breakdown is the set of keys of the document's component_breakdown
_calculate_component_score(circuit, component_intent) ==
    IF component_intent = None THEN RHalf
    ELSE LET breakdown == circuit.component_breakdown
             match_components == component_intent.match
             opposite == component_intent.opposite
         IN  IF match_components # <<>> /\ AnyMatch(match_components, breakdown)
             THEN ROne
             ELSE IF opposite # NoComponent /\ opposite \in breakdown THEN RZero
             ELSE RHalf

-----------------------------------------------------------------------------
(* The helpers called alone: tokenize, _detect_component_intent and          *)
(* _calculate_component_score applied to inputs from bounded sets.           *)

MaxComponents == 2 \* component types in the inventory handed to the scorer

\* finite sequences over S of length at most n
SeqUpTo(S, n) == UNION {[1..k -> S] : k \in 0..n}

TokAlphabet == {"a", "B", "7", "_", "-", " ", "\t"}

TokTexts == SeqUpTo(TokAlphabet, MaxLen)

RECURSIVE Flatten(_)
Flatten(ss) == IF ss = <<>> THEN <<>> ELSE Head(ss) \o Flatten(Tail(ss))

QueryPhrases ==
    {COMPONENT_KEYWORDS[i].keyword : i \in 1..Len(COMPONENT_KEYWORDS)}
    \cup {<<"d", "e">>, <<"D", "E">>, <<" ">>, <<"M", "U", "X">>,
          <<"A", "d", "d">>, <<"e", "r">>}

IntentQueries == {Flatten(ws) : ws \in SeqUpTo(QueryPhrases, MaxWords)}

Rules == {COMPONENT_KEYWORDS[i] : i \in 1..Len(COMPONENT_KEYWORDS)}

Inventories == {b \in SUBSET ComponentTypes : Cardinality(b) <= MaxComponents}

NoCall ==
    [fn |-> "none", text |-> <<>>, tokens |-> <<>>, retokens |-> <<>>,
     baseline_tokens |-> <<>>,
     intent |-> None, circuit |-> [component_breakdown |-> {}, null_keys |-> {}], score |-> RZero]

\* tokenize(text) of hybrid_search.py and of baseline_search.py, and
\* tokenize(' '.join(tokenize(text)))
CallTokenize(text) ==
    /\ call = NoCall
    /\ call' = [NoCall EXCEPT !.fn = "tokenize", !.text = text,
                              !.tokens = tokenize(text),
                              !.baseline_tokens = baseline_tokenize(text),
                              !.retokens = tokenize(Join(tokenize(text)))]
    /\ UNCHANGED <<engineVars, pipelineVars>>

\* _detect_component_intent(q)
CallDetect(q) ==
    /\ call = NoCall
    /\ call' = [NoCall EXCEPT !.fn = "detect", !.text = q,
                              !.intent = _detect_component_intent(q)]
    /\ UNCHANGED <<engineVars, pipelineVars>>

\* _calculate_component_score(circuit, component_intent)
CallScore(circuit, component_intent) ==
    /\ call = NoCall
    /\ call' = [NoCall EXCEPT !.fn = "score", !.circuit = circuit,
                              !.intent = component_intent,
                              !.score = _calculate_component_score(circuit, component_intent)]
    /\ UNCHANGED <<engineVars, pipelineVars>>

\* the caller drops the helper's result before the next call
CallReturn ==
    /\ call # NoCall
    /\ call' = NoCall
    /\ UNCHANGED <<engineVars, pipelineVars>>

InitFn ==
    /\ program = "none"
    /\ circuits = <<>>
    /\ embeddings = 0
    /\ h_state = "none"
    /\ enriched_texts = <<>>
    /\ valid_indices = <<>>
    /\ h_bm25 = <<>>
    /\ b_state = "none"
    /\ b_corpus = <<>>
    /\ b_bm25 = <<>>
    /\ pc = "idle"
    /\ query = <<>>
    /\ top_k = 0
    /\ locals = <<>>
    /\ results = <<>>
    /\ previous = <<>>
    /\ call = NoCall
    /\ PipelineIdle

\* a helper is called only once the previous call has returned
NextFn ==
    \/ /\ call = NoCall
       /\ \E text \in TokTexts : CallTokenize(text)
    \/ /\ call = NoCall
       /\ \E q \in IntentQueries : CallDetect(q)
    \/ /\ call = NoCall
       /\ \E b \in Inventories, r \in Rules \cup {None} :
              CallScore([component_breakdown |-> b, null_keys |-> {}], r)
    \/ CallReturn

SpecFn == InitFn /\ [][NextFn]_vars

-----------------------------------------------------------------------------
(* The corpus file and the inputs of the engines *)

EMPTY_SENTINEL == <<"E", "m", "p", "t", "y", " ", "c", "i", "r", "c", "u", "i", "t">>

TextTen == <<"a", "d", "d", "e", "r", " ", "c", "h", "i", "p">>
TextEleven == <<"d", "e", "m", "u", "x", " ", "1", " ", "t", "o", "4">>
TextCounter ==
    <<"4", " ", "b", "i", "t", " ", "c", "o", "u", "n", "t", "e", "r", " ",
      "c", "i", "r", "c", "u", "i", "t">>
TextFullAdder ==
    <<"f", "u", "l", "l", " ", "a", "d", "d", "e", "r", " ", "l", "o", "g", "i", "c">>

\* the keys the engines read of a document
FieldKeys == {"name", "description", "tags", "component_breakdown", "embedding_text"}

TextThirteen == <<"a", "d", "d", "e", "r", " ", "c", "i", "r", "c", "u", "i", "t">>

\* the documents a corpus file is made of; a corpus holds them by reference
\* (their place in this table), a document being immutable once loaded.
\* absent_keys are the keys the JSON object does not have and null_keys the
\* keys that hold null; the field of such a key is written here with the
\* value `circuit.get(key, default) or default` has.
Documents ==
    <<[name |-> <<>>, description |-> <<>>, tags |-> <<>>,
      component_breakdown |-> {}, embedding_text |-> TextTen,
      absent_keys |-> {}, null_keys |-> {}],
     [name |-> <<"U", "n", "t", "i", "t", "l", "e", "d">>, description |-> <<"<", ">", "a", " ", "<", "b", ">", "c", "i", "r", "c", "u", "i", "t", "<", "/", "b", ">">>, tags |-> <<>>,
      component_breakdown |-> {"Demultiplexer"}, embedding_text |-> EMPTY_SENTINEL,
      absent_keys |-> {}, null_keys |-> {}],
     [name |-> <<"D", "e", "m", "u", "x">>, description |-> <<>>,
      tags |-> <<<<"1", " ", "t", "o", "4">>>>,
      component_breakdown |-> {"Demultiplexer"}, embedding_text |-> TextEleven,
      absent_keys |-> {}, null_keys |-> {}],
     [name |-> <<"m", "u", "x">>, description |-> <<"<", "d", "i", "v", ">", "a", "d", "d", "e", "r", "<", "/", "d", "i", "v", ">", "	", "c", "i", "r", "c", "u", "i", "t">>,
      tags |-> <<<<"m", "u", "x">>, <<"a", "l", "u">>>>,
      component_breakdown |-> {"Multiplexer", "Demultiplexer", "HalfAdder"},
      embedding_text |-> TextThirteen,
      absent_keys |-> {}, null_keys |-> {}],
     \* the JSON object {}
     [name |-> <<>>, description |-> <<>>, tags |-> <<>>,
      component_breakdown |-> {}, embedding_text |-> <<>>,
      absent_keys |-> FieldKeys, null_keys |-> {}],
     \* every expected key holds null
     [name |-> <<>>, description |-> <<>>, tags |-> <<>>,
      component_breakdown |-> {}, embedding_text |-> <<>>,
      absent_keys |-> {}, null_keys |-> FieldKeys],
     \* {id: 1, embedding_text: '4 bit counter circuit', component_breakdown: {Counter: 1}}
     [name |-> <<>>, description |-> <<>>, tags |-> <<>>,
      component_breakdown |-> {"Counter"}, embedding_text |-> TextCounter,
      absent_keys |-> {"name", "description", "tags"}, null_keys |-> {}],
     \* {id: 2, embedding_text: 'full adder logic', component_breakdown: {FullAdder: 2}}
     [name |-> <<>>, description |-> <<>>, tags |-> <<>>,
      component_breakdown |-> {"FullAdder"}, embedding_text |-> TextFullAdder,
      absent_keys |-> {"name", "description", "tags"}, null_keys |-> {}]>>

\* the documents with every field present
FullDocuments == 1..4

\* the documents with absent or null fields
DegenerateDocuments == 5..6

\* the corpus of two documents about a counter and a full adder
CounterCorpus == <<7, 8>>

\* the corpus files of the model: up to MaxDocs documents with every field,
\* shorter ones that hold degenerate documents too, and CounterCorpus
Corpora ==
    SeqUpTo(FullDocuments, MaxDocs)
    \cup SeqUpTo(FullDocuments \cup DegenerateDocuments, MaxDocs - 1)
    \cup {CounterCorpus}

\* the document at dense position p of the corpus cs
Circuit(cs, p) == Documents[cs[p + 1]]

Queries ==
    {<<>>, <<"a", "-">>, <<"D", "e", "m", "u", "x">>,
     <<"4", "-", "b", "i", "t", " ", "A", "D", "D", "E", "R">>, <<"c", "i", "r", "c", "u", "i", "t">>,
     <<"c", "o", "u", "n", "t", "e", "r">>}

\* the values a cosine similarity takes in the model
SemValues == {RZero, ROne}

\* the values a raw BM25 score takes in the model
RawValues == {Rat(-1, 1), ROne, Rat(2, 1)}

\* positions 0..n-1 of an array of length n
Positions(n) == 0..(n - 1)

-----------------------------------------------------------------------------
(* rank_bm25.BM25Okapi, as the engines use it *)

\* BM25Okapi(tokenized_corpus) divides by the number of documents and by the
\* number of distinct terms: it raises on a corpus without documents or
\* without terms.
BM25Constructs(tokenized_corpus) ==
    /\ tokenized_corpus # <<>>
    /\ \E i \in 1..Len(tokenized_corpus) : tokenized_corpus[i] # <<>>

SharesTerm(doc_tokens, query_tokens) ==
    \E i \in 1..Len(doc_tokens), j \in 1..Len(query_tokens) :
        doc_tokens[i] = query_tokens[j]

\* nd[term] of BM25Okapi: the number of indexed documents that hold the term
DocFreq(tokenized_corpus, term) ==
    Cardinality({i \in 1..Len(tokenized_corpus) :
                     \E j \in 1..Len(tokenized_corpus[i]) : tokenized_corpus[i][j] = term})

\* idf = log(N - n + 0.5) - log(n + 0.5) is 0 when the term is in half of the
\* documents (an idf of 0 is not replaced by epsilon * average_idf)
IdfIsZero(tokenized_corpus, term) ==
    2 * DocFreq(tokenized_corpus, term) = Len(tokenized_corpus)

\* the document holds a query term whose idf is not 0
ScoresTerm(tokenized_corpus, doc_tokens, tokenized_query) ==
    \E i \in 1..Len(doc_tokens), j \in 1..Len(tokenized_query) :
        /\ doc_tokens[i] = tokenized_query[j]
        /\ ~IdfIsZero(tokenized_corpus, doc_tokens[i])

\* bm25.get_scores(tokenized_query): one score per indexed document, the sum
\* over the query terms the document holds of idf times a positive factor: 0
\* for a document that holds no query term of idf other than 0.  A term in
\* more than half of the documents has a negative idf, replaced by
\* epsilon * average_idf, which is negative when the average is.
BM25Scores(tokenized_corpus, tokenized_query) ==
    LET hit == {i \in Positions(Len(tokenized_corpus)) :
                    ScoresTerm(tokenized_corpus, tokenized_corpus[i + 1], tokenized_query)}
    IN  {[i \in Positions(Len(tokenized_corpus)) |-> IF i \in hit THEN s[i] ELSE RZero] :
             s \in [hit -> RawValues]}

\* the orders of the positions 0..n-1, for every corpus length of the model
Orders ==
    [n \in 0..MaxDocs |->
        {p \in [1..n -> Positions(n)] : \A i, j \in 1..n : i # j => p[i] # p[j]}]

\* np.argsort(scores) for an array of length n: an ascending order of the
\* positions; the default sort is not stable, the order among equal scores
\* is unspecified
Argsort(scores, n) ==
    {p \in Orders[n] : \A i \in 1..(n - 1) : RLeq(scores[p[i]], scores[p[i + 1]])}

\* order[::-1][:k]
ReverseTake(order, k) ==
    LET n == Len(order)
        m == IF k < n THEN k ELSE n
    IN  [i \in 1..m |-> order[n - i + 1]]

-----------------------------------------------------------------------------
(* HybridSearch *)

\* a variant of the admission test without the sentinel
IsValidTextByLength(text) == text # <<>> /\ Len(text) > 10

\* the admission test of __init__ for one enriched text
IsValidText(text) == text # <<>> /\ text # EMPTY_SENTINEL /\ Len(text) > 10

\* `if text and ...` for text = c.get('embedding_text', ''): None is falsy
Admits(c) == "embedding_text" \notin c.null_keys /\ IsValidText(c.embedding_text)

\* a variant that records the position in the valid subset
ValidIndicesDense(cs, i) ==
    LET n == Cardinality({p \in Positions(i) : Admits(Circuit(cs, p))})
    IN  [j \in 1..n |-> j - 1]

\* valid_indices after the loop of __init__ has seen the documents 0..i-1
RECURSIVE ValidIndicesUpTo(_, _)
ValidIndicesUpTo(cs, i) ==
    IF i = 0 THEN <<>>
    ELSE LET rest == ValidIndicesUpTo(cs, i - 1)
         IN  IF Admits(Circuit(cs, i - 1)) THEN Append(rest, i - 1) ELSE rest

\* enriched_texts after the loop of __init__ has seen the documents 0..i-1
RECURSIVE EnrichedTextsUpTo(_, _)
EnrichedTextsUpTo(cs, i) ==
    IF i = 0 THEN <<>>
    ELSE LET rest == EnrichedTextsUpTo(cs, i - 1)
             c == Circuit(cs, i - 1)
         IN  IF Admits(c) THEN Append(rest, c.embedding_text) ELSE rest

\* HybridSearch.__init__
HybridInit ==
    /\ program = "hybrid_search"
    /\ h_state = "none"
    /\ pc = "idle"
    /\ LET vi == ValidIndicesUpTo(circuits, Len(circuits))
           texts == EnrichedTextsUpTo(circuits, Len(circuits))
           tokenized_corpus == [i \in 1..Len(texts) |-> tokenize(texts[i])]
       IN  IF BM25Constructs(tokenized_corpus)
           THEN /\ h_state' = "ready"
                /\ enriched_texts' = texts
                /\ valid_indices' = vi
                /\ h_bm25' = tokenized_corpus
           ELSE /\ h_state' = "failed"
                /\ UNCHANGED <<enriched_texts, valid_indices, h_bm25>>
    /\ UNCHANGED <<program, circuits, embeddings, b_state, b_corpus, b_bm25, pc, query, top_k,
                   locals, results, previous, call, stats, errors, req, job>>

W_SEMANTIC == Rat(45, 100)
W_KEYWORD == Rat(45, 100)
W_COMPONENT == Rat(1, 10)

\* a variant that fills the scores of a query without tokens with ones
KeywordScoresValidOnes(tokenized_query, raw, n_valid) ==
    IF tokenized_query # <<>>
    THEN LET mx == ArrayMax(raw, Positions(n_valid))
         IN  IF RLess(RZero, mx)
             THEN [i \in Positions(n_valid) |-> RDiv(raw[i], mx)]
             ELSE raw
    ELSE [i \in Positions(n_valid) |-> ROne]

\* keyword_scores_valid of search
KeywordScoresValid(tokenized_query, raw, n_valid) ==
    IF tokenized_query # <<>>
    THEN LET mx == ArrayMax(raw, Positions(n_valid))
         IN  IF RLess(RZero, mx)
             THEN [i \in Positions(n_valid) |-> RDiv(raw[i], mx)]
             ELSE raw
    ELSE [i \in Positions(n_valid) |-> RZero]

\* a variant of the scatter that writes at the position in the valid subset
ScatterDense(full, vi, kv, m) ==
    IF m = 0 THEN full
    ELSE [i \in DOMAIN full |-> IF i < m THEN kv[i] ELSE full[i]]

\* the loop `keyword_scores_full[valid_idx] = keyword_scores_valid[i]` after
\* its first m rounds, on the array full
RECURSIVE Scatter(_, _, _, _)
Scatter(full, vi, kv, m) ==
    IF m = 0 THEN full
    ELSE [Scatter(full, vi, kv, m - 1) EXCEPT ![vi[m]] = kv[m - 1]]

\* a variant that starts keyword_scores_full from np.ones
KeywordScoresFullOnes(n, vi, kv) ==
    Scatter([i \in Positions(n) |-> ROne], vi, kv, Len(vi))

\* keyword_scores_full of search
KeywordScoresFull(n, vi, kv) ==
    Scatter([i \in Positions(n) |-> RZero], vi, kv, Len(vi))

\* a variant of the fusion with the keyword weight on the component score
FusionSwapped(sem, kw, comp) ==
    RAdd(RAdd(RMul(W_SEMANTIC, sem), RMul(W_COMPONENT, kw)), RMul(W_KEYWORD, comp))

\* final_scores of search, for one document
Fusion(sem, kw, comp) ==
    RAdd(RAdd(RMul(W_SEMANTIC, sem), RMul(W_KEYWORD, kw)), RMul(W_COMPONENT, comp))

\* a variant of the selection that keeps the lowest scores
TopIndicesAscending(order, k) ==
    [i \in 1..(IF k < Len(order) THEN k ELSE Len(order)) |-> order[i]]

\* a variant of the selection that returns one entry more
TopIndicesOneMore(order, k) == ReverseTake(order, k + 1)

\* top_indices of search
TopIndices(order, k) == ReverseTake(order, k)

\* the length of x + y for arrays of lengths m and n under numpy's
\* broadcasting: an array of length 1 is stretched to the other's length, and
\* other unequal lengths raise ValueError (NoShape)
NoShape == -1
BroadcastLen(m, n) ==
    IF m = n THEN n ELSE IF m = 1 THEN n ELSE IF n = 1 THEN m ELSE NoShape

\* the element at position i of an array of length len stretched by broadcasting
Stretched(arr, len, i) == IF len = 1 THEN arr[0] ELSE arr[i]

\* the arrays search computes for query q, given the semantic score array
\* sem (one score per row of the embedding matrix) and the scores raw of
\* bm25.get_scores
ScoreArrays(q, sem, raw) ==
    LET n == Len(circuits)
        kv == KeywordScoresValid(tokenize(q), raw, Len(valid_indices))
        kf == KeywordScoresFull(n, valid_indices, kv)
        component_intent == _detect_component_intent(q)
        comp == [i \in Positions(n) |->
                     _calculate_component_score(Circuit(circuits, i), component_intent)]
    IN  [semantic_scores_full |-> sem,
         bm25_scores |-> IF tokenize(q) # <<>> THEN raw ELSE <<>>,
         keyword_scores_valid |-> kv,
         keyword_scores_full |-> kf,
         component_scores |-> comp,
         final_scores |->
             [i \in Positions(BroadcastLen(embeddings, n)) |->
                 Fusion(Stretched(sem, embeddings, i), Stretched(kf, n, i),
                        Stretched(comp, n, i))]]

\* the list search returns for the positions top_indices and the arrays a
ResultList(top_indices, a) ==
    [r \in 1..Len(top_indices) |->
        [idx |-> top_indices[r],
         scores |-> [final |-> a.final_scores[top_indices[r]],
                     semantic |-> a.semantic_scores_full[top_indices[r]],
                     keyword |-> a.keyword_scores_full[top_indices[r]],
                     component |-> a.component_scores[top_indices[r]]],
         circuit |-> circuits[top_indices[r] + 1]]]

\* search raises before it sorts: .max() of an empty array (ValueError),
\* `comp in breakdown` on None (TypeError), or the sum of arrays whose
\* lengths do not broadcast (ValueError)
RaisesBeforeSort(q) ==
    \/ tokenize(q) # <<>> /\ valid_indices = <<>>
    \/ \E i \in Positions(Len(circuits)) :
           ComponentScoreRaises(Circuit(circuits, i), _detect_component_intent(q))
    \/ BroadcastLen(embeddings, Len(circuits)) = NoShape

\* the loop over top_indices raises IndexError: a position of the stretched
\* final_scores is beyond the end of semantic_scores_full or of
\* keyword_scores_full, component_scores and self.circuits
RaisesInLoop(top_indices) ==
    \E r \in 1..Len(top_indices) :
        top_indices[r] >= embeddings \/ top_indices[r] >= Len(circuits)

\* a variant of search that drops the last recorded position of the valid
\* subset
SearchTrimsValid ==
    /\ valid_indices' = SubSeq(valid_indices, 1, Len(valid_indices) - 1)
    /\ UNCHANGED <<circuits, embeddings, h_state, enriched_texts, h_bm25>>

\* the attributes of self over a call of HybridSearch.search: the statements
\* of search read self.model, self.embeddings, self.bm25, self.valid_indices
\* and self.circuits and assign none of them
SearchAssignsNothing ==
    UNCHANGED <<circuits, embeddings, h_state, enriched_texts, valid_indices, h_bm25>>

\* HybridSearch.search(q, k).  The semantic score array (the encoded query
\* dotted with the embedding rows), the scores of bm25.get_scores and the
\* order np.argsort returns are the values those calls give.
Search(q, k) ==
    /\ h_state = "ready"
    /\ pc = "idle"
    /\ IF RaisesBeforeSort(q)
       THEN /\ pc' = "raised"
            /\ locals' = <<>>
            /\ results' = <<>>
       ELSE \E sem \in [Positions(embeddings) -> SemValues],
               raw \in BM25Scores(h_bm25, tokenize(q)) :
              \E a \in {ScoreArrays(q, sem, raw)} :
                \E order \in Argsort(a.final_scores, BroadcastLen(embeddings, Len(circuits))) :
                  IF RaisesInLoop(TopIndices(order, k))
                  THEN /\ pc' = "raised"
                       /\ locals' = <<>>
                       /\ results' = <<>>
                  ELSE /\ pc' = "hybrid"
                       /\ locals' = [semantic_scores_full |-> a.semantic_scores_full,
                                     bm25_scores |-> a.bm25_scores,
                                     keyword_scores_valid |-> a.keyword_scores_valid,
                                     keyword_scores_full |-> a.keyword_scores_full,
                                     component_scores |-> a.component_scores,
                                     final_scores |-> a.final_scores,
                                     top_indices |-> TopIndices(order, k)]
                       /\ results' = ResultList(TopIndices(order, k), a)
    /\ query' = q
    /\ top_k' = k
    /\ SearchAssignsNothing
    /\ UNCHANGED <<program, b_state, b_corpus, b_bm25, previous, call, stats, errors, req, job>>

-----------------------------------------------------------------------------
(* BaselineSearch *)

\* re.sub(r'<[^>]+>', '', s) from position i on: a tag is '<', one or more
\* characters other than '>', and the next '>'
RECURSIVE StripTagsFrom(_, _)
StripTagsFrom(s, i) ==
    IF i > Len(s) THEN <<>>
    ELSE LET closers == {j \in (i + 1)..Len(s) : s[j] = ">"}
             close == IF closers = {} THEN 0
                      ELSE CHOOSE j \in closers : \A l \in closers : j <= l
         IN  IF s[i] = "<" /\ close >= i + 2
             THEN StripTagsFrom(s, close + 1)
             ELSE <<s[i]>> \o StripTagsFrom(s, i + 1)

\* BaselineSearch._clean_html
_clean_html(text) ==
    IF text = <<>> THEN <<>> ELSE Join(Split(StripTagsFrom(text, 1)))

UNTITLED == <<"u", "n", "t", "i", "t", "l", "e", "d">>

\* the text _build_corpus makes of one document
CorpusText(circuit) ==
    LET name_part == IF circuit.name # <<>> THEN <<circuit.name>> ELSE <<>>
        clean_desc == _clean_html(circuit.description)
        desc_part == IF circuit.description # <<>> /\ clean_desc # <<>>
                     THEN <<clean_desc>> ELSE <<>>
        parts == name_part \o desc_part \o circuit.tags
    IN  IF parts # <<>> THEN Join(parts) ELSE UNTITLED

\* a variant that indexes what the hybrid engine indexes: the embedding_text
\* of the documents of the valid subset
_build_corpus_enriched(cs) == EnrichedTextsUpTo(cs, Len(cs))

\* BaselineSearch._build_corpus
_build_corpus(cs) == [i \in 1..Len(cs) |-> CorpusText(Circuit(cs, i - 1))]

\* BaselineSearch.__init__
BaselineInit ==
    /\ program = "baseline_search"
    /\ b_state = "none"
    /\ pc = "idle"
    /\ LET corpus == _build_corpus(circuits)
           tokenized_corpus == [i \in 1..Len(corpus) |-> baseline_tokenize(corpus[i])]
       IN  IF BM25Constructs(tokenized_corpus)
           THEN /\ b_state' = "ready"
                /\ b_corpus' = corpus
                /\ b_bm25' = tokenized_corpus
           ELSE /\ b_state' = "failed"
                /\ b_corpus' = corpus
                /\ UNCHANGED b_bm25
    /\ UNCHANGED <<program, circuits, embeddings, h_state, enriched_texts, valid_indices, h_bm25,
                   pc, query, top_k, locals, results, previous, call, stats, errors, req, job>>

\* a variant that keeps the entries with score >= 0
PositiveEntriesOrZero(top_indices, scores) ==
    LET kept == SelectSeq(top_indices, LAMBDA idx : RLeq(RZero, scores[idx]))
    IN  [r \in 1..Len(kept) |->
            [idx |-> kept[r], score |-> scores[kept[r]],
             circuit |-> circuits[kept[r] + 1]]]

\* the loop of BaselineSearch.search that keeps the entries with score > 0
PositiveEntries(top_indices, scores) ==
    LET kept == SelectSeq(top_indices, LAMBDA idx : RLess(RZero, scores[idx]))
    IN  [r \in 1..Len(kept) |->
            [idx |-> kept[r], score |-> scores[kept[r]],
             circuit |-> circuits[kept[r] + 1]]]

\* the attributes of self over a call of BaselineSearch.search: the
\* statements of search read self.bm25 and self.circuits and assign neither
BaselineSearchAssignsNothing ==
    UNCHANGED <<circuits, embeddings, b_state, b_corpus, b_bm25>>

\* BaselineSearch.search(q, k).  The scores of bm25.get_scores and the order
\* np.argsort returns are the values those calls give.
BaselineSearch(q, k) ==
    /\ b_state = "ready"
    /\ pc = "idle"
    /\ IF baseline_tokenize(q) = <<>>
       THEN /\ locals' = <<>>
            /\ results' = <<>>
       ELSE \E raw \in BM25Scores(b_bm25, baseline_tokenize(q)) :
              \E order \in Argsort(raw, Len(circuits)) :
                /\ locals' = [scores |-> raw, top_indices |-> TopIndices(order, k)]
                /\ results' = PositiveEntries(TopIndices(order, k), raw)
    /\ pc' = "baseline"
    /\ query' = q
    /\ top_k' = k
    /\ BaselineSearchAssignsNothing
    /\ UNCHANGED <<program, h_state, enriched_texts, valid_indices, h_bm25, previous, call, stats, errors, req, job>>

-----------------------------------------------------------------------------
(* The engines' session: the corpus file is read by the constructors, and   *)
(* the caller's loop over the queries takes each result before it asks the  *)
(* next query.                                                              *)

\* the caller's loop goes on to the next query; the call's arrays are gone.
\* An exception of search is not caught: the script ends with it.
NextQuery ==
    /\ pc \in {"hybrid", "baseline", "hybrid_again", "baseline_again"}
    /\ pc' = "idle"
    /\ query' = <<>>
    /\ top_k' = 0
    /\ locals' = <<>>
    /\ results' = <<>>
    /\ previous' = <<>>
    /\ UNCHANGED <<program, circuits, embeddings, h_state, enriched_texts, valid_indices, h_bm25,
                   b_state, b_corpus, b_bm25, call, stats, errors, req, job>>

Init ==
    /\ program \in {"hybrid_search", "baseline_search"}
    /\ circuits \in Corpora
    /\ embeddings = Len(circuits)
    /\ h_state = "none"
    /\ enriched_texts = <<>>
    /\ valid_indices = <<>>
    /\ h_bm25 = <<>>
    /\ b_state = "none"
    /\ b_corpus = <<>>
    /\ b_bm25 = <<>>
    /\ pc = "idle"
    /\ query = <<>>
    /\ top_k = 0
    /\ locals = <<>>
    /\ results = <<>>
    /\ previous = <<>>
    /\ call = NoCall
    /\ PipelineIdle

Next ==
    \/ HybridInit
    \/ BaselineInit
    \/ \E q \in Queries, k \in 1..MaxTopK : Search(q, k)
    \/ \E q \in Queries, k \in 1..MaxTopK : BaselineSearch(q, k)
    \/ NextQuery

Spec == Init /\ [][Next]_vars

-----------------------------------------------------------------------------------------------------------------------------------------------------
(* An embeddings file whose number of rows is not the number of documents   *)
(* of the corpus file: the two files are read independently by __init__.    *)

InitLoad ==
    /\ program = "hybrid_search"
    /\ circuits \in Corpora
    /\ embeddings \in (0..MaxDocs) \ {Len(circuits)}
    /\ h_state = "none"
    /\ enriched_texts = <<>>
    /\ valid_indices = <<>>
    /\ h_bm25 = <<>>
    /\ b_state = "none"
    /\ b_corpus = <<>>
    /\ b_bm25 = <<>>
    /\ pc = "idle"
    /\ query = <<>>
    /\ top_k = 0
    /\ locals = <<>>
    /\ results = <<>>
    /\ previous = <<>>
    /\ call = NoCall
    /\ PipelineIdle

NextLoad ==
    \/ HybridInit
    \/ \E q \in Queries, k \in 1..MaxTopK : Search(q, k)
    \/ NextQuery

SpecLoad == InitLoad /\ [][NextLoad]_vars

-----------------------------------------------------------------------------
(* A caller that repeats a call of search with the same arguments.  encode, *)
(* np.dot, get_scores and np.argsort are functions of their arguments:      *)
(* called again with the arguments of the call before, on the same loaded   *)
(* state, each returns the value it returned to that call.                  *)

\* a variant in which np.argsort orders equal scores anew on every call
ArgsortAnew(scores, n, top_indices, k) == Argsort(scores, n)

\* np.argsort called again on the scores whose order began by top_indices
ArgsortAgain(scores, n, top_indices, k) ==
    {order \in Argsort(scores, n) : TopIndices(order, k) = top_indices}

\* bm25.get_scores called again (search calls it for a query with tokens
\* only; the model's scores for a query without tokens are all 0)
GetScoresAgain(tokenized_query, bm25_scores) ==
    IF tokenized_query # <<>> THEN {bm25_scores}
    ELSE BM25Scores(h_bm25, tokenized_query)

\* HybridSearch.search(query, top_k) once more, after it has returned
SearchAgain ==
    /\ pc = "hybrid"
    /\ \E sem \in {locals.semantic_scores_full},
          raw \in GetScoresAgain(tokenize(query), locals.bm25_scores) :
         \E a \in {ScoreArrays(query, sem, raw)} :
           \E order \in ArgsortAgain(a.final_scores, Len(circuits),
                                     locals.top_indices, top_k) :
             /\ locals' = [semantic_scores_full |-> a.semantic_scores_full,
                           bm25_scores |-> a.bm25_scores,
                           keyword_scores_valid |-> a.keyword_scores_valid,
                           keyword_scores_full |-> a.keyword_scores_full,
                           component_scores |-> a.component_scores,
                           final_scores |-> a.final_scores,
                           top_indices |-> TopIndices(order, top_k)]
             /\ results' = ResultList(TopIndices(order, top_k), a)
    /\ previous' = results
    /\ pc' = "hybrid_again"
    /\ UNCHANGED <<program, circuits, embeddings, h_state, enriched_texts, valid_indices, h_bm25,
                   b_state, b_corpus, b_bm25, query, top_k, call, stats, errors, req, job>>

\* BaselineSearch.search(query, top_k) once more, after it has returned
BaselineSearchAgain ==
    /\ pc = "baseline"
    /\ IF baseline_tokenize(query) = <<>>
       THEN /\ locals' = <<>>
            /\ results' = <<>>
       ELSE \E raw \in {locals.scores} :
              \E order \in ArgsortAgain(raw, Len(circuits), locals.top_indices, top_k) :
                /\ locals' = [scores |-> raw, top_indices |-> TopIndices(order, top_k)]
                /\ results' = PositiveEntries(TopIndices(order, top_k), raw)
    /\ previous' = results
    /\ pc' = "baseline_again"
    /\ UNCHANGED <<program, circuits, embeddings, h_state, enriched_texts, valid_indices, h_bm25,
                   b_state, b_corpus, b_bm25, query, top_k, call, stats, errors, req, job>>

\* the corpus files and the queries of the repeated calls
CorporaTwice == SeqUpTo(3..4, MaxDocs)
QueriesTwice == {<<>>, <<"D", "e", "m", "u", "x">>, <<"c", "i", "r", "c", "u", "i", "t">>}

InitTwice ==
    /\ Init
    /\ circuits \in CorporaTwice

NextTwice ==
    \/ HybridInit
    \/ BaselineInit
    \/ \E q \in QueriesTwice, k \in 1..MaxTopK : Search(q, k)
    \/ \E q \in QueriesTwice, k \in 1..MaxTopK : BaselineSearch(q, k)
    \/ SearchAgain
    \/ BaselineSearchAgain
    \/ NextQuery

SpecTwice == InitTwice /\ [][NextTwice]_vars

-----------------------------------------------------------------------------
(* The data scripts: project_download.py, explore_circuits.py and           *)
(* extract_scope_names.py ask the CircuitVerse API through _make_request.   *)

MAX_RETRIES == 3

MaxRequests == 6   \* HTTP attempts of one run of a script

\* the engines' variables while a data script runs
EngineIdle ==
    /\ circuits = <<>>
    /\ embeddings = 0
    /\ h_state = "none"
    /\ enriched_texts = <<>>
    /\ valid_indices = <<>>
    /\ h_bm25 = <<>>
    /\ b_state = "none"
    /\ b_corpus = <<>>
    /\ b_bm25 = <<>>
    /\ pc = "idle"
    /\ query = <<>>
    /\ top_k = 0
    /\ locals = <<>>
    /\ results = <<>>
    /\ previous = <<>>
    /\ call = NoCall

\* the scripts that define _make_request
Scripts == {"project_download", "explore_circuits", "extract_scope_names"}

\* the JSON bodies the API answers with
Bodies == {"body_a", "body_b"}

\* Python None as the value _make_request returns
NoData == "None"

\* what one requests.get gives: status 200 with a JSON body, status 429,
\* status 403 or 404, another error status (raise_for_status raises
\* HTTPError), or no response (ConnectionError, Timeout)
Responses ==
    [kind : {"ok"}, body : Bodies]
    \cup [kind : {"rate_limited", "denied", "server_error", "no_connection"},
          body : {NoData}]

\* the attempt ends in the except clause for RequestException.  Only
\* explore_circuits.py and extract_scope_names.py return None on 403 and 404
\* before raise_for_status.
Raises(script, response) ==
    \/ response.kind \in {"server_error", "no_connection"}
    \/ response.kind = "denied" /\ script = "project_download"

\* the attempt returns from inside the try block
ReturnsInTry(script, response) ==
    \/ response.kind = "ok"
    \/ response.kind = "denied" /\ script # "project_download"

\* a variant that records an error at every attempt that raises
AppendsErrorAlways(raised, attempt) == raised

\* `if attempt == self.MAX_RETRIES - 1: self.errors.append(...)` of the
\* except clause
AppendsError(raised, attempt) == raised /\ attempt = MAX_RETRIES - 1

\* self.stats as __init__ leaves it (the counters _make_request writes)
InitStats(script) ==
    IF script = "project_download"
    THEN [total_requests |-> 0, failed_requests |-> 0]
    ELSE [total_requests |-> 0]

\* self.stats after one attempt
StatsAfterAttempt(script, st, raised) ==
    IF script = "project_download"
    THEN [st EXCEPT !.total_requests = @ + 1,
                    !.failed_requests = IF raised THEN @ + 1 ELSE @]
    ELSE [st EXCEPT !.total_requests = @ + 1]

\* a method of the script calls self._make_request(url)
CallMakeRequest ==
    /\ req.status = "none"
    /\ stats.total_requests + MAX_RETRIES <= MaxRequests
    /\ req' = [NoRequest EXCEPT !.status = "running",
                                !.requests_before = stats.total_requests,
                                !.errors_before = Len(errors)]
    /\ UNCHANGED <<engineVars, call, stats, errors, job>>

\* one round of `for attempt in range(self.MAX_RETRIES)`, req.attempt being
\* the loop variable: the counter, requests.get with the response the server
\* gives, and the branch taken on it.  A 429 on the last round and the end of
\* the loop fall to the `return None` after the loop.
Attempt(response) ==
    /\ req.status = "running"
    /\ LET raised == Raises(program, response)
           last == req.attempt = MAX_RETRIES - 1
       IN  /\ stats' = StatsAfterAttempt(program, stats, raised)
           /\ errors' = IF AppendsError(raised, req.attempt)
                        THEN Append(errors, [error |-> response.kind])
                        ELSE errors
           /\ req' = [req EXCEPT
                        !.attempt = @ + 1,
                        !.seen = Append(@, response),
                        !.status = IF ReturnsInTry(program, response) \/ last
                                   THEN "returned" ELSE "running",
                        !.result = IF response.kind = "ok" THEN response.body ELSE NoData]
    /\ UNCHANGED <<engineVars, call, job>>

\* the caller takes the value returned and goes on
TakeResult ==
    /\ req.status = "returned"
    /\ req' = NoRequest
    /\ UNCHANGED <<engineVars, call, stats, errors, job>>

InitRequest ==
    /\ program \in Scripts
    /\ EngineIdle
    /\ stats = InitStats(program)
    /\ errors = <<>>
    /\ req = NoRequest
    /\ job = <<>>

NextRequest ==
    \/ CallMakeRequest
    \/ \E response \in Responses : Attempt(response)
    \/ TakeResult

\* time.sleep returns and requests.get returns or raises within its timeout:
\* a call in progress goes on to its next attempt
SpecRequest ==
    InitRequest /\ [][NextRequest]_vars /\ WF_vars(\E response \in Responses : Attempt(response))

\* a sequence of responses that one call of _make_request consumes: the call
\* goes on after every response but the last and returns at the last
CompleteRun(script, rs) ==
    /\ Len(rs) \in 1..MAX_RETRIES
    /\ \A i \in 1..(Len(rs) - 1) : ~ReturnsInTry(script, rs[i])
    /\ ReturnsInTry(script, rs[Len(rs)]) \/ Len(rs) = MAX_RETRIES

\* _make_request as a whole, over the responses rs of its rounds: the number
\* of attempts, the number of rounds that raised, whether an error entry was
\* appended, and the value returned
_make_request(script, rs) ==
    LET n == Len(rs)
    IN  [attempts |-> n,
         failed |-> Cardinality({i \in 1..n : Raises(script, rs[i])}),
         logged |-> AppendsError(Raises(script, rs[n]), n - 1),
         result |-> IF rs[n].kind = "ok" THEN rs[n].body ELSE NoData]

-----------------------------------------------------------------------------
(* project_download.py: CircuitVerseCollector.collect_metadata *)

MaxTarget == 3     \* target_count of the collector
MaxPages == 3      \* pages the API serves
MaxPerPage == 2    \* projects on one page

\* an entry of the page's 'data' list: a public project, a private one, a
\* public one without 'id' (the extraction raises KeyError), one without the
\* key 'attributes', and one whose 'attributes' is null
ProjectKinds == {"Public", "Private", "PublicNoId", "NoAttributes", "NullAttributes"}

\* links of a page: 'next' holds a URL, holds null, or is absent
NextLinks == {"url", "null", "absent"}

\* the JSON bodies of GET /projects
Pages == [data : SeqUpTo(ProjectKinds, MaxPerPage), next : NextLinks]

\* the rounds of a call of _make_request that returns the body pg
OkRuns(pg) ==
    {<<[kind |-> "ok", body |-> pg]>>,
     <<[kind |-> "rate_limited", body |-> NoData], [kind |-> "ok", body |-> pg]>>}

\* the rounds of a call of _make_request that returns None
FailedRuns ==
    {<<[kind |-> "no_connection", body |-> NoData], [kind |-> "server_error", body |-> NoData],
       [kind |-> "denied", body |-> NoData]>>,
     <<[kind |-> "rate_limited", body |-> NoData], [kind |-> "rate_limited", body |-> NoData],
       [kind |-> "rate_limited", body |-> NoData]>>}

\* project_raw.get('attributes', {}).get('project_access_type') raises
\* AttributeError when 'attributes' holds null
AccessTestRaises(kind) == kind = "NullAttributes"

\* project_raw.get('attributes', {}).get('project_access_type') == 'Public'
IsPublic(kind) == kind \in {"Public", "PublicNoId"}

\* _extract_project_data returns None: project_raw['id'] raises KeyError
ExtractionFails(kind) == kind = "PublicNoId"

\* the record _extract_project_data returns for the i-th project of a page
ProjectData(kind, page, i) ==
    [page |-> page, slot |-> i,
     project_access_type |-> IF IsPublic(kind) THEN "Public" ELSE "Private"]

\* the loop `for project_raw in projects` from the i-th project on: the
\* collected list, the extraction errors appended, and whether the loop
\* raised
RECURSIVE CollectFrom(_, _, _, _, _)
CollectFrom(projects, i, page, target, acc) ==
    IF i > Len(projects) THEN acc
    ELSE IF Len(acc.collected) >= target THEN acc
    ELSE IF AccessTestRaises(projects[i]) THEN [acc EXCEPT !.raised = TRUE]
    ELSE IF ~IsPublic(projects[i]) THEN CollectFrom(projects, i + 1, page, target, acc)
    ELSE IF ExtractionFails(projects[i])
         THEN CollectFrom(projects, i + 1, page, target,
                          [acc EXCEPT !.errors = Append(@, [error |-> "extraction"])])
    ELSE CollectFrom(projects, i + 1, page, target,
                     [acc EXCEPT !.collected = Append(@, ProjectData(projects[i], page, i))])

\* a variant that reads only whether the key 'next' is present
HasMoreIfPresent(next) == next # "absent"

\* has_more = 'next' in links and links['next'] is not None
HasMore(next) == next = "url"

\* self.stats after a call of _make_request
StatsAfterCall(st, r) ==
    [st EXCEPT !.total_requests = @ + r.attempts, !.failed_requests = @ + r.failed]

\* the statements after the loop: projects_collected
CollectEnds(st, collected) == [st EXCEPT !.projects_collected = Len(collected)]

\* one round of `while has_more and len(self.collected) < self.target_count`
\* whose request fails: `if not data: break`, then the statements after the
\* loop
CollectPageFailed(rs) ==
    /\ job.status = "looping"
    /\ job.has_more
    /\ Len(job.collected) < job.target_count
    /\ job.page_number <= MaxPages
    /\ LET r == _make_request(program, rs)
       IN  /\ stats' = CollectEnds(StatsAfterCall(stats, r), job.collected)
           /\ errors' = IF r.logged THEN Append(errors, [error |-> rs[Len(rs)].kind])
                        ELSE errors
           /\ job' = [job EXCEPT !.status = "done",
                                 !.requested = Append(@, job.page_number),
                                 !.pages = Append(@, "failed")]
    /\ UNCHANGED <<engineVars, call, req>>

\* one round of the loop whose request returns the body pg: no projects
\* (`has_more = False; break`), or the loop over the projects, the next link
\* and the increment of page_number
CollectPage(rs, pg) ==
    /\ job.status = "looping"
    /\ job.has_more
    /\ Len(job.collected) < job.target_count
    /\ job.page_number <= MaxPages
    /\ LET r == _make_request(program, rs)
           acc == CollectFrom(pg.data, 1, job.page_number, job.target_count,
                              [collected |-> job.collected, errors |-> errors,
                               raised |-> FALSE])
       IN  IF pg.data = <<>>
           THEN /\ stats' = CollectEnds(StatsAfterCall(stats, r), job.collected)
                /\ errors' = errors
                /\ job' = [job EXCEPT !.status = "done",
                                      !.has_more = FALSE,
                                      !.requested = Append(@, job.page_number),
                                      !.pages = Append(@, "empty")]
           ELSE IF acc.raised
           THEN /\ stats' = StatsAfterCall(stats, r)
                /\ errors' = acc.errors
                /\ job' = [job EXCEPT !.status = "raised",
                                      !.collected = acc.collected,
                                      !.requested = Append(@, job.page_number),
                                      !.pages = Append(@, "raised")]
           ELSE /\ stats' = StatsAfterCall(stats, r)
                /\ errors' = acc.errors
                /\ job' = [job EXCEPT !.collected = acc.collected,
                                      !.has_more = HasMore(pg.next),
                                      !.page_number = @ + 1,
                                      !.requested = Append(@, job.page_number),
                                      !.pages = Append(@, pg.next)]
    /\ UNCHANGED <<engineVars, call, req>>

\* the loop condition is false: the statements after the loop
CollectDone ==
    /\ job.status = "looping"
    /\ ~(job.has_more /\ Len(job.collected) < job.target_count)
    /\ stats' = CollectEnds(stats, job.collected)
    /\ job' = [job EXCEPT !.status = "done"]
    /\ UNCHANGED <<engineVars, call, req, errors>>

InitCollect ==
    /\ program = "project_download"
    /\ EngineIdle
    /\ stats = [total_requests |-> 0, failed_requests |-> 0, projects_collected |-> 0]
    /\ errors = <<>>
    /\ req = NoRequest
    /\ \E t \in 1..MaxTarget :
           job = [status |-> "looping", target_count |-> t, page_number |-> 1,
                  has_more |-> TRUE, collected |-> <<>>, requested |-> <<>>,
                  pages |-> <<>>]

NextCollect ==
    \/ \E rs \in FailedRuns : CollectPageFailed(rs)
    \/ \E pg \in Pages : \E rs \in OkRuns(pg) : CollectPage(rs, pg)
    \/ CollectDone

SpecCollect == InitCollect /\ [][NextCollect]_vars

-----------------------------------------------------------------------------
(* extract_scope_names.py: ScopeNameExtractor.extract_scopes *)

MaxSelected == 2   \* circuits in self.selected_circuits
MaxScopes == 2     \* entries of the 'scopes' list of one circuit

\* str.strip()
RECURSIVE StripLeft(_)
StripLeft(s) ==
    IF s # <<>> /\ IsSpaceChar(Head(s)) THEN StripLeft(Tail(s)) ELSE s

RECURSIVE StripRight(_)
StripRight(s) ==
    IF s # <<>> /\ IsSpaceChar(s[Len(s)])
    THEN StripRight(SubSeq(s, 1, Len(s) - 1)) ELSE s

Strip(s) == StripRight(StripLeft(s))

\* ['Main', 'Untitled', '', 'main', 'untitled']
ExcludedScopeNames ==
    {<<"M", "a", "i", "n">>, <<"U", "n", "t", "i", "t", "l", "e", "d">>, <<>>,
     <<"m", "a", "i", "n">>, UNTITLED}

\* the entries of a 'scopes' list: objects with a name (a string), an object
\* whose name is a number, and an entry that is no object
ScopeEntries ==
    [kind : {"named"},
     name : {<<"a", "l", "u">>, <<"M", "a", "i", "n">>, <<" ", "a", "b", " ">>}]
    \cup [kind : {"number_name", "not_dict"}, name : {<<>>}]

\* the JSON bodies of GET /projects/{id}/circuit_data: an object with a list
\* under 'scopes', an object whose 'scopes' is null, and a non-empty array
CircuitData ==
    [shape : {"object"}, scopes : SeqUpTo(ScopeEntries, MaxScopes)]
    \cup [shape : {"null_scopes", "array"}, scopes : {<<>>}]

\* circuit_data of a round whose request returned None
NoCircuitData == [shape |-> "None", scopes |-> <<>>]

\* the loop `for scope in scopes` from the i-th entry on: the names appended,
\* and whether name.strip() raised
RECURSIVE ScopeNamesFrom(_, _, _)
ScopeNamesFrom(scopes, i, acc) ==
    IF i > Len(scopes) THEN acc
    ELSE LET scope == scopes[i]
         IN  IF scope.kind = "not_dict"
             THEN ScopeNamesFrom(scopes, i + 1, acc)
             ELSE IF scope.kind = "number_name" THEN [acc EXCEPT !.raised = TRUE]
             ELSE IF scope.name \notin ExcludedScopeNames /\ Len(Strip(scope.name)) > 2
                  THEN ScopeNamesFrom(scopes, i + 1,
                                      [acc EXCEPT !.names = Append(@, Strip(scope.name))])
                  ELSE ScopeNamesFrom(scopes, i + 1, acc)

\* _extract_scope_names(circuit_data): an exception in the body (.get of an
\* array, iteration over None, .strip of a number) is caught and recorded, and
\* the names found before it are returned
_extract_scope_names(circuit_data) ==
    IF circuit_data.shape \in {"null_scopes", "array"}
    THEN [names |-> <<>>, raised |-> TRUE]
    ELSE ScopeNamesFrom(circuit_data.scopes, 1, [names |-> <<>>, raised |-> FALSE])

\* the records of the circuits file: every record holds 'id' and 'name', as
\* the collecting scripts write them; one holds scope_names of an earlier run
SelectableCircuits ==
    {[id |-> 1, name |-> "mux"],
     [id |-> 2, name |-> "alu", scope_names |-> << <<"o", "l", "d">> >>]}

\* circuit_copy = circuit.copy(); circuit_copy['scope_names'] = names
CopyWithScopes(circuit, names) ==
    [f \in DOMAIN circuit \cup {"scope_names"} |->
        IF f = "scope_names" THEN names ELSE circuit[f]]

\* a variant that writes scope_names into the circuit of the selection
CircuitWrittenInPlace(circuit, names) == CopyWithScopes(circuit, names)

\* the circuit of the selection after its round: the round writes to a copy
CircuitAfterRound(circuit, names) == circuit

\* the rounds of a call of _make_request that returns the body
ScopeOkRuns(body) ==
    {<<[kind |-> "no_connection", body |-> NoData], [kind |-> "ok", body |-> body]>>}

\* the rounds of a call of _make_request that returns None
ScopeFailedRuns ==
    {<<[kind |-> "denied", body |-> NoData]>>,
     <<[kind |-> "server_error", body |-> NoData], [kind |-> "rate_limited", body |-> NoData],
       [kind |-> "no_connection", body |-> NoData]>>,
     <<[kind |-> "rate_limited", body |-> NoData], [kind |-> "rate_limited", body |-> NoData],
       [kind |-> "rate_limited", body |-> NoData]>>}

\* one round of `for circuit in self.selected_circuits` whose request
\* returns None
ExtractFailed(rs) ==
    /\ job.status = "looping"
    /\ job.i <= Len(job.selected)
    /\ LET r == _make_request(program, rs)
           circuit == job.selected[job.i]
       IN  /\ stats' = [stats EXCEPT !.total_requests = @ + r.attempts,
                                     !.failed_fetches = @ + 1]
           /\ errors' = IF r.logged THEN Append(errors, [error |-> rs[Len(rs)].kind])
                        ELSE errors
           /\ job' = [job EXCEPT
                        !.selected[job.i] = CircuitAfterRound(circuit, <<>>),
                        !.results = Append(@, CopyWithScopes(circuit, <<>>)),
                        !.fetched = Append(@, FALSE),
                        !.circuit_data = NoCircuitData,
                        !.i = @ + 1]
    /\ UNCHANGED <<engineVars, call, req>>

\* one round of the loop whose request returns circuit_data
ExtractFetched(rs, circuit_data) ==
    /\ job.status = "looping"
    /\ job.i <= Len(job.selected)
    /\ LET r == _make_request(program, rs)
           circuit == job.selected[job.i]
           x == _extract_scope_names(circuit_data)
       IN  /\ stats' = [stats EXCEPT
                          !.total_requests = @ + r.attempts,
                          !.successful_fetches = @ + 1,
                          !.circuits_with_scope_names =
                              IF x.names # <<>> THEN @ + 1 ELSE @,
                          !.total_scope_names_found = @ + Len(x.names)]
           /\ errors' = IF x.raised THEN Append(errors, [error |-> "scope_extraction"])
                        ELSE errors
           /\ job' = [job EXCEPT
                        !.selected[job.i] = CircuitAfterRound(circuit, x.names),
                        !.results = Append(@, CopyWithScopes(circuit, x.names)),
                        !.fetched = Append(@, TRUE),
                        !.circuit_data = circuit_data,
                        !.i = @ + 1]
    /\ UNCHANGED <<engineVars, call, req>>

\* the loop has seen every selected circuit: the summary, the files, and
\* `return results`
ExtractReturns ==
    /\ job.status = "looping"
    /\ job.i > Len(job.selected)
    /\ job' = [job EXCEPT !.status = "returned"]
    /\ UNCHANGED <<engineVars, call, req, stats, errors>>

InitExtract ==
    /\ program = "extract_scope_names"
    /\ EngineIdle
    /\ stats = [total_requests |-> 0, successful_fetches |-> 0, failed_fetches |-> 0,
                circuits_with_scope_names |-> 0, total_scope_names_found |-> 0]
    /\ errors = <<>>
    /\ req = NoRequest
    /\ \E sel \in SeqUpTo(SelectableCircuits, MaxSelected) :
           job = [status |-> "looping", given |-> sel, selected |-> sel, i |-> 1,
                  results |-> <<>>, fetched |-> <<>>, circuit_data |-> NoCircuitData]

NextExtract ==
    \/ \E rs \in ScopeFailedRuns : ExtractFailed(rs)
    \/ \E body \in CircuitData : \E rs \in ScopeOkRuns(body) : ExtractFetched(rs, body)
    \/ ExtractReturns

SpecExtract == InitExtract /\ [][NextExtract]_vars

-----------------------------------------------------------------------------
(* generate_embeddings.py: CircuitEmbeddingGenerator *)

MaxCircuits == 2   \* circuits in the circuits file

\* the keys of component_breakdown are strings; here as character sequences
DISTINCTIVE_COMPONENTS ==
    {<<"D", "f", "l", "i", "p", "F", "l", "o", "p">>,
     <<"S", "R", "f", "l", "i", "p", "F", "l", "o", "p">>,
     <<"J", "K", "f", "l", "i", "p", "F", "l", "o", "p">>,
     <<"T", "f", "l", "i", "p", "F", "l", "o", "p">>,
     <<"F", "u", "l", "l", "A", "d", "d", "e", "r">>,
     <<"H", "a", "l", "f", "A", "d", "d", "e", "r">>,
     <<"M", "u", "l", "t", "i", "p", "l", "e", "x", "e", "r">>,
     <<"D", "e", "m", "u", "l", "t", "i", "p", "l", "e", "x", "e", "r">>,
     <<"D", "e", "c", "o", "d", "e", "r">>,
     <<"E", "n", "c", "o", "d", "e", "r">>,
     <<"C", "o", "u", "n", "t", "e", "r">>,
     <<"A", "L", "U">>,
     <<"S", "e", "v", "e", "n", "S", "e", "g", "D", "i", "s", "p", "l", "a", "y">>,
     <<"H", "e", "x", "D", "i", "s", "p", "l", "a", "y">>,
     <<"R", "G", "B", "L", "e", "d">>,
     <<"E", "E", "P", "R", "O", "M">>,
     <<"R", "o", "m">>,
     <<"R", "a", "m">>,
     <<"S", "u", "b", "C", "i", "r", "c", "u", "i", "t">>}

FLIP_FLOPS == {<<"D", "f", "l", "i", "p", "F", "l", "o", "p">>, <<"S", "R", "f", "l", "i", "p", "F", "l", "o", "p">>, <<"J", "K", "f", "l", "i", "p", "F", "l", "o", "p">>, <<"T", "f", "l", "i", "p", "F", "l", "o", "p">>}

SEQUENTIAL_COMPONENTS == FLIP_FLOPS \cup {<<"C", "l", "o", "c", "k">>}

GENERIC_PATTERNS ==
    <<<<"u", "n", "t", "i", "t", "l", "e", "d">>,
      <<"p", "r", "o", "j", "e", "c", "t">>,
      <<"a", "s", "s", "i", "g", "n", "m", "e", "n", "t">>,
      <<"h", "o", "m", "e", "w", "o", "r", "k">>,
      <<"l", "a", "b">>,
      <<"t", "e", "s", "t">>,
      <<"d", "e", "m", "o">>,
      <<"e", "x">>,
      <<"t", "p">>,
      <<"e", "x", "p", "e", "r", "i", "m", "e", "n", "t">>>>

\* the text returned for a circuit without parts
EmptyCircuitText == <<"E", "m", "p", "t", "y", " ", "c", "i", "r", "c", "u", "i", "t">>

\* clean_desc[:200]
DESCRIPTION_LIMIT == 200

\* scope_names[:5] and distinctive[:5]
LIST_LIMIT == 5

\* s[:n]
Take(s, n) == SubSeq(s, 1, IF Len(s) < n THEN Len(s) ELSE n)

\* sep.join(ts)
RECURSIVE JoinWith(_, _)
JoinWith(sep, ts) ==
    IF ts = <<>> THEN <<>>
    ELSE IF Len(ts) = 1 THEN ts[1]
    ELSE ts[1] \o sep \o JoinWith(sep, Tail(ts))

\* str(n) for n >= 0
RECURSIVE IntToStr(_)
IntToStr(n) ==
    LET digit(d) == <<"0", "1", "2", "3", "4", "5", "6", "7", "8", "9">>[d + 1]
    IN  IF n < 10 THEN <<digit(n)>> ELSE IntToStr(n \div 10) \o <<digit(n % 10)>>

\* s.replace(old, new)
RECURSIVE Replace(_, _, _)
Replace(s, old, new) ==
    IF Len(s) < Len(old) THEN s
    ELSE IF SubSeq(s, 1, Len(old)) = old
         THEN new \o Replace(SubSeq(s, Len(old) + 1, Len(s)), old, new)
         ELSE <<Head(s)>> \o Replace(Tail(s), old, new)

\* _is_generic_name
_is_generic_name(name) ==
    \/ name = <<>>
    \/ Len(name) <= 3
    \/ \E i \in 1..Len(GENERIC_PATTERNS) : IsSubstring(GENERIC_PATTERNS[i], Lower(name))

\* CircuitEmbeddingGenerator._clean_html
generator_clean_html(text) ==
    IF text = <<>> THEN <<>> ELSE Join(Split(StripTagsFrom(text, 1)))

\* _is_sequential
_is_sequential(breakdown) == \E comp \in SEQUENTIAL_COMPONENTS : comp \in DOMAIN breakdown

\* _format_component_name
_format_component_name(comp_type, count) ==
    LET plural == IF count > 1 THEN <<"s">> ELSE <<>>
        base == IF comp_type \in FLIP_FLOPS
                THEN Replace(comp_type, <<"f", "l", "i", "p", "F", "l", "o", "p">>, <<" ", "f", "l", "i", "p", "-", "f", "l", "o", "p">>)
                ELSE IF comp_type = <<"S", "e", "v", "e", "n", "S", "e", "g", "D", "i", "s", "p", "l", "a", "y">> THEN <<"7", "-", "s", "e", "g", "m", "e", "n", "t", " ", "d", "i", "s", "p", "l", "a", "y">>
                ELSE IF comp_type = <<"H", "e", "x", "D", "i", "s", "p", "l", "a", "y">> THEN <<"h", "e", "x", " ", "d", "i", "s", "p", "l", "a", "y">>
                ELSE IF comp_type = <<"S", "u", "b", "C", "i", "r", "c", "u", "i", "t">> THEN <<"s", "u", "b", "c", "i", "r", "c", "u", "i", "t", " ", "m", "o", "d", "u", "l", "e">>
                ELSE Lower(comp_type)
    IN  IntToStr(count) \o <<" ">> \o base \o plural

\* _get_distinctive_components: `for comp_type in self.DISTINCTIVE_COMPONENTS`
\* visits the members of a set of strings in the order of their hashes, which
\* the interpreter draws anew for every process; order is that order
_get_distinctive_components(breakdown, order) ==
    LET present == SelectSeq(order, LAMBDA comp_type : comp_type \in DOMAIN breakdown)
    IN  [i \in 1..Len(present) |->
            _format_component_name(present[i], breakdown[present[i]])]

\* circuit.get(key, default) is neither absent nor null
Holds(circuit, key) == key \notin circuit.absent_keys \cup circuit.null_keys

\* breakdown.get(key, 0)
CountOf(breakdown, key) == IF key \in DOMAIN breakdown THEN breakdown[key] ELSE 0

\* create_embedding_text raises: `comp_type in breakdown` on None
CreateTextRaises(circuit) == "component_breakdown" \in circuit.null_keys

\* the list parts of create_embedding_text
EmbeddingParts(circuit, order) ==
    LET name_part ==
            IF Holds(circuit, "name") /\ circuit.name # <<>> /\ ~_is_generic_name(circuit.name)
            THEN <<circuit.name>> ELSE <<>>
        clean_desc == generator_clean_html(circuit.description)
        desc_part ==
            IF Holds(circuit, "description") /\ circuit.description # <<>> /\ clean_desc # <<>>
            THEN <<Take(clean_desc, DESCRIPTION_LIMIT)>> ELSE <<>>
        scope_part ==
            IF Holds(circuit, "scope_names") /\ circuit.scope_names # <<>>
            THEN <<<<"M", "o", "d", "u", "l", "e", "s", ":", " ">> \o JoinWith(<<",", " ">>, Take(circuit.scope_names, LIST_LIMIT))>>
            ELSE <<>>
        tags_part ==
            IF Holds(circuit, "tags") /\ circuit.tags # <<>>
            THEN <<<<"T", "a", "g", "s", ":", " ">> \o JoinWith(<<",", " ">>, circuit.tags)>>
            ELSE <<>>
        breakdown == circuit.component_breakdown
        type_part ==
            IF DOMAIN breakdown = {} THEN <<>>
            ELSE IF _is_sequential(breakdown)
                 THEN <<<<"S", "e", "q", "u", "e", "n", "t", "i", "a", "l", " ", "l", "o", "g", "i", "c", " ", "c", "i", "r", "c", "u", "i", "t">>>>
                      \o (IF <<"C", "l", "o", "c", "k">> \in DOMAIN breakdown THEN <<<<"C", "l", "o", "c", "k", "e", "d", " ", "o", "p", "e", "r", "a", "t", "i", "o", "n">>>> ELSE <<>>)
                 ELSE <<<<"C", "o", "m", "b", "i", "n", "a", "t", "i", "o", "n", "a", "l", " ", "l", "o", "g", "i", "c", " ", "c", "i", "r", "c", "u", "i", "t">>>>
        distinctive == _get_distinctive_components(breakdown, order)
        comp_part ==
            IF distinctive # <<>>
            THEN <<<<"C", "o", "m", "p", "o", "n", "e", "n", "t", "s", ":", " ">> \o JoinWith(<<",", " ">>, Take(distinctive, LIST_LIMIT))>>
            ELSE <<>>
        input_count == CountOf(breakdown, <<"I", "n", "p", "u", "t">>)
        output_count == CountOf(breakdown, <<"O", "u", "t", "p", "u", "t">>)
        io_part ==
            IF input_count > 0 \/ output_count > 0
            THEN <<IntToStr(input_count) \o <<" ", "i", "n", "p", "u", "t", "s", ",", " ">> \o IntToStr(output_count) \o <<" ", "o", "u", "t", "p", "u", "t", "s">>>>
            ELSE <<>>
    IN  name_part \o desc_part \o scope_part \o tags_part \o type_part \o comp_part \o io_part

\* a variant that returns the joined text as it is
create_embedding_text_joined(circuit, order) ==
    JoinWith(<<".", " ">>, EmbeddingParts(circuit, order))

\* create_embedding_text
create_embedding_text(circuit, order) ==
    LET joined == JoinWith(<<".", " ">>, EmbeddingParts(circuit, order))
        embedding_text == IF joined # <<>> /\ joined[Len(joined)] # "."
                          THEN joined \o <<".">> ELSE joined
    IN  IF embedding_text # <<>> THEN embedding_text ELSE EmptyCircuitText

\* component_breakdown {}
EmptyBreakdown == [comp_type \in {} |-> 0]

\* the records of the circuits file
EmbedCircuits ==
    {\* {name: '', description: '', scope_names: [], tags: [], component_breakdown: {}}
     [name |-> <<>>, description |-> <<>>, scope_names |-> <<>>, tags |-> <<>>,
      component_breakdown |-> EmptyBreakdown, absent_keys |-> {}, null_keys |-> {}],
     \* a generic name, a description that is markup only
     [name |-> <<"L", "a", "b", " ", "1">>, description |-> <<"<", "p", ">", " ", "<", "/", "p", ">">>, scope_names |-> <<>>, tags |-> <<>>,
      component_breakdown |-> EmptyBreakdown, absent_keys |-> {}, null_keys |-> {}],
     \* a name of three characters, one tag, no scope_names key
     [name |-> <<"A", "L", "U">>, description |-> <<>>, scope_names |-> <<>>, tags |-> <<<<"a", "l", "u">>>>,
      component_breakdown |-> EmptyBreakdown, absent_keys |-> {"scope_names"},
      null_keys |-> {"description"}],
     \* a name, a description that ends with a full stop, a combinational circuit
     [name |-> <<"F", "u", "l", "l", " ", "A", "d", "d", "e", "r">>, description |-> <<"<", "b", ">", "A", "d", "d", "s", "<", "/", "b", ">", " ", " ", "b", "i", "t", "s", ".">>, scope_names |-> <<>>, tags |-> <<>>,
      component_breakdown |-> (<<"F", "u", "l", "l", "A", "d", "d", "e", "r">> :> 2) @@ (<<"I", "n", "p", "u", "t">> :> 3) @@ (<<"O", "u", "t", "p", "u", "t">> :> 12),
      absent_keys |-> {}, null_keys |-> {}],
     \* scope names and a clocked circuit with two distinctive component types
     [name |-> <<"U", "n", "t", "i", "t", "l", "e", "d">>, description |-> <<>>, scope_names |-> <<<<"h", "a", "l", "f">>, <<"f", "u", "l", "l">>>>,
      tags |-> <<>>,
      component_breakdown |-> (<<"D", "f", "l", "i", "p", "F", "l", "o", "p">> :> 1) @@ (<<"C", "l", "o", "c", "k">> :> 1) @@ (<<"S", "u", "b", "C", "i", "r", "c", "u", "i", "t">> :> 2),
      absent_keys |-> {}, null_keys |-> {}],
     \* no key 'name'; a description that is one full stop after markup
     [name |-> <<>>, description |-> <<"<", "i", ">", "x", "<", "/", "i", ">", ".">>, scope_names |-> <<>>, tags |-> <<>>,
      component_breakdown |-> EmptyBreakdown, absent_keys |-> {"name"}, null_keys |-> {}],
     \* component_breakdown: null
     [name |-> <<"F", "u", "l", "l", " ", "A", "d", "d", "e", "r">>, description |-> <<>>, scope_names |-> <<>>, tags |-> <<>>,
      component_breakdown |-> EmptyBreakdown, absent_keys |-> {},
      null_keys |-> {"component_breakdown"}]}

\* the distinctive component types that the circuits of the model hold
HeldDistinctive ==
    {comp_type \in DISTINCTIVE_COMPONENTS :
        \E c \in EmbedCircuits : comp_type \in DOMAIN c.component_breakdown}

\* the orders in which a process can visit them
IterationOrders ==
    {o \in [1..Cardinality(HeldDistinctive) -> HeldDistinctive] :
        \A i, j \in DOMAIN o : i # j => o[i] # o[j]}

\* the loop of generate_embeddings over the circuits: one text per circuit,
\* appended in the order of the file
CreateTexts ==
    /\ job.status = "loaded"
    /\ IF \E i \in 1..Len(job.circuits) : CreateTextRaises(job.circuits[i])
       THEN job' = [job EXCEPT !.status = "raised"]
       ELSE job' = [job EXCEPT
                      !.status = "texts",
                      !.embedding_texts =
                          [i \in 1..Len(job.circuits) |->
                              create_embedding_text(job.circuits[i], job.order)]]
    /\ UNCHANGED <<engineVars, call, req, stats, errors>>

\* the sample print (circuit['name'] of circuits[0]), the average text length
\* (a division by the number of texts) and model.encode, which returns one
\* row per text, in the order of the texts
Encode ==
    /\ job.status = "texts"
    /\ IF \/ job.circuits = <<>>
          \/ "name" \in job.circuits[1].absent_keys
       THEN job' = [job EXCEPT !.status = "raised"]
       ELSE job' = [job EXCEPT
                      !.status = "encoded",
                      !.embeddings =
                          [i \in 1..Len(job.embedding_texts) |->
                              [encoded |-> job.embedding_texts[i]]]]
    /\ UNCHANGED <<engineVars, call, req, stats, errors>>

\* np.save of the rows, and the loop over zip(circuits, embedding_texts) that
\* copies each circuit and sets its embedding_text
SaveEnriched ==
    /\ job.status = "encoded"
    /\ job' = [job EXCEPT
                 !.status = "saved",
                 !.circuits_enriched =
                     [i \in 1..(IF Len(job.circuits) < Len(job.embedding_texts)
                                THEN Len(job.circuits) ELSE Len(job.embedding_texts)) |->
                         [circuit |-> job.circuits[i],
                          embedding_text |-> job.embedding_texts[i]]]]
    /\ UNCHANGED <<engineVars, call, req, stats, errors>>

InitEmbed ==
    /\ program = "generate_embeddings"
    /\ EngineIdle
    /\ stats = <<>>
    /\ errors = <<>>
    /\ req = NoRequest
    /\ \E cs \in SeqUpTo(EmbedCircuits, MaxCircuits), o \in IterationOrders :
           job = [status |-> "loaded", circuits |-> cs, order |-> o,
                  embedding_texts |-> <<>>, embeddings |-> <<>>,
                  circuits_enriched |-> <<>>]

NextEmbed ==
    \/ CreateTexts
    \/ Encode
    \/ SaveEnriched

SpecEmbed == InitEmbed /\ [][NextEmbed]_vars

-----
(* Claims about the engines (checked under Spec) *)

Range(s) == {s[i] : i \in 1..Len(s)}

ReturnedPositions == {results[r].idx : r \in 1..Len(results)}

\* C1: every entry HybridSearch.search returns has
\* final = 0.45 * semantic + 0.45 * keyword + 0.10 * component, the three
\* values being those of the same document in the same breakdown (keyword the
\* max-normalised lexical score); the weights sum to 1.
C1_FinalIsWeightedSum ==
    pc = "hybrid" =>
        /\ RAdd(RAdd(Rat(45, 100), Rat(45, 100)), Rat(10, 100)) = ROne
        /\ \A r \in 1..Len(results) :
               LET s == results[r].scores
                   p == results[r].idx
               IN  /\ s.final = RAdd(RAdd(RMul(Rat(45, 100), s.semantic),
                                          RMul(Rat(45, 100), s.keyword)),
                                     RMul(Rat(10, 100), s.component))
                   /\ s.semantic = locals.semantic_scores_full[p]
                   /\ s.keyword = locals.keyword_scores_full[p]
                   /\ s.component = locals.component_scores[p]
                   /\ results[r].circuit = circuits[p + 1]

\* C1 witness: a returned entry whose three channel scores are pairwise
\* different, the keyword score being a proper fraction made by the
\* normalisation.
C1_Witness ==
    /\ pc = "hybrid"
    /\ \E r \in 1..Len(results) :
           LET s == results[r].scores
           IN  /\ s.keyword = RHalf
               /\ s.semantic = ROne
               /\ s.component = RZero
               /\ results[r].idx > 0

\* C2: HybridSearch.search returns its entries in non-increasing order of
\* final score, and no document left out has a final score strictly greater
\* than that of a returned one.
C2_TopKDescending ==
    pc = "hybrid" =>
        /\ \A r, s \in 1..Len(results) :
               r < s => RLeq(results[s].scores.final, results[r].scores.final)
        /\ \A p \in Positions(Len(circuits)) \ ReturnedPositions :
               \A r \in 1..Len(results) :
                   RLeq(locals.final_scores[p], results[r].scores.final)

\* C2 witness: a result of two entries with strictly decreasing scores that
\* leaves out a document with a strictly smaller score.
C2_Witness ==
    /\ pc = "hybrid"
    /\ Len(results) >= 2
    /\ RLess(results[2].scores.final, results[1].scores.final)
    /\ \E p \in Positions(Len(circuits)) \ ReturnedPositions :
           RLess(locals.final_scores[p], results[Len(results)].scores.final)

\* C3: of two documents with the same final score HybridSearch.search places
\* the one with the smaller dense position first, and at the top_k cut-off it
\* keeps the tied document with the smaller dense position.
C3_TiesByPositionAscending ==
    pc = "hybrid" =>
        /\ \A r, s \in 1..Len(results) :
               (r < s /\ results[r].scores.final = results[s].scores.final)
                   => results[r].idx < results[s].idx
        /\ \A p \in Positions(Len(circuits)) \ ReturnedPositions :
               \A r \in 1..Len(results) :
                   locals.final_scores[p] = results[r].scores.final
                       => results[r].idx < p

\* C4: search returns at most top_k entries in both engines, and
\* HybridSearch.search returns exactly min(top_k, N) entries whose dense
\* positions are pairwise distinct.
C4_AtMostTopK ==
    pc \in {"hybrid", "baseline"} =>
        /\ top_k >= 1
        /\ Len(results) <= top_k
        /\ pc = "hybrid" =>
              /\ Len(results) = (IF top_k < Len(circuits) THEN top_k ELSE Len(circuits))
              /\ \A r, s \in 1..Len(results) :
                     r # s => results[r].idx # results[s].idx

\* C4 witness: a hybrid search over more documents than top_k has returned
\* exactly top_k entries.
C4_Witness ==
    /\ pc = "hybrid"
    /\ top_k < Len(circuits)
    /\ Len(results) = top_k

\* C5: the keyword score array used in fusion has the length of the full
\* corpus and is exactly 0 at every position that is not in the valid subset.
C5_KeywordArrayFullLength ==
    pc = "hybrid" =>
        /\ DOMAIN locals.keyword_scores_full = Positions(Len(circuits))
        /\ \A p \in Positions(Len(circuits)) :
               p \notin Range(valid_indices)
                   => locals.keyword_scores_full[p] = RZero

\* C5 witness: a document outside the valid subset stands before a valid
\* document whose keyword score is not 0.
C5_Witness ==
    /\ pc = "hybrid"
    /\ \E p, v \in Positions(Len(circuits)) :
           /\ p < v
           /\ p \notin Range(valid_indices)
           /\ v \in Range(valid_indices)
           /\ locals.keyword_scores_full[v] # RZero

\* C8: a document is admitted to the lexical index if and only if its
\* embedding_text is non-empty, is not 'Empty circuit' and is longer than 10
\* characters; a document whose text is the sentinel (13 characters) is never
\* indexed and its keyword score is 0 for every query.
C8_AdmissionRule ==
    h_state = "ready" =>
        /\ Len(EMPTY_SENTINEL) = 13
        /\ Len(enriched_texts) = Len(valid_indices)
        /\ \A p \in Positions(Len(circuits)) :
               LET text == Circuit(circuits, p).embedding_text
               IN  /\ (p \in Range(valid_indices))
                          <=> (text # <<>> /\ text # EMPTY_SENTINEL /\ Len(text) > 10)
                   /\ text = EMPTY_SENTINEL =>
                          /\ p \notin Range(valid_indices)
                          /\ pc = "hybrid" => locals.keyword_scores_full[p] = RZero

\* C8 witness: a query that shares a term with the sentinel text has been
\* searched over a corpus holding a sentinel document and a document with a
\* keyword score other than 0.
C8_Witness ==
    /\ pc = "hybrid"
    /\ SharesTerm(tokenize(EMPTY_SENTINEL), tokenize(query))
    /\ \E p \in Positions(Len(circuits)) :
           Circuit(circuits, p).embedding_text = EMPTY_SENTINEL
    /\ \E v \in Positions(Len(circuits)) : locals.keyword_scores_full[v] # RZero

\* the positions of the corpus
CorpusPositions == Positions(Len(circuits))

\* the documents the valid subset holds, by dense position
ValidPositions == Range(valid_indices)

\* C11: for a query that is empty or tokenizes to no tokens,
\* HybridSearch.search does not raise; every keyword score is 0, no intent is
\* detected and every component score is 0.5, every final score is
\* 0.45 * semantic + 0.05, and the entries come in the order of the semantic
\* scores.
C11_EmptyQueryDegrades ==
    (pc \in {"hybrid", "raised"} /\ tokenize(query) = <<>>) =>
        /\ pc = "hybrid"
        /\ _detect_component_intent(query) = None
        /\ \A p \in CorpusPositions :
               /\ locals.keyword_scores_full[p] = RZero
               /\ locals.component_scores[p] = RHalf
               /\ locals.final_scores[p]
                      = RAdd(RMul(Rat(45, 100), locals.semantic_scores_full[p]),
                             Rat(5, 100))
        /\ \A r, s \in 1..Len(results) :
               r < s => RLeq(results[s].scores.semantic, results[r].scores.semantic)
        /\ \A p \in CorpusPositions \ ReturnedPositions :
               \A r \in 1..Len(results) :
                   RLeq(locals.semantic_scores_full[p], results[r].scores.semantic)

\* C11 witness: a query of characters that leaves no token has been searched
\* over a corpus with a valid document, and two entries with different
\* semantic scores came back.
C11_Witness ==
    /\ pc = "hybrid"
    /\ query # <<>>
    /\ tokenize(query) = <<>>
    /\ valid_indices # <<>>
    /\ Len(results) >= 2
    /\ RLess(results[2].scores.semantic, results[1].scores.semantic)

\* C12: when the embedding matrix has another number of rows than the corpus
\* has documents, the construction of HybridSearch fails: there is no search
\* handle, and no query is evaluated.
C12_MismatchFatalAtLoad ==
    embeddings # Len(circuits) =>
        /\ h_state # "ready"
        /\ pc # "hybrid"

PositivePositions == {p \in CorpusPositions : RLess(RZero, locals.scores[p])}

\* C14: BaselineSearch.search returns only documents with a lexical score
\* above 0, in non-increasing order of score: the min(top_k, P) best of the P
\* documents with a positive score; a query that tokenizes to nothing returns
\* the empty sequence.
C14_BaselinePositiveOnly ==
    pc = "baseline" =>
        IF tokenize(query) = <<>> THEN results = <<>>
        ELSE /\ Len(results) = (IF top_k < Cardinality(PositivePositions)
                                THEN top_k ELSE Cardinality(PositivePositions))
             /\ \A r \in 1..Len(results) :
                    /\ results[r].idx \in PositivePositions
                    /\ results[r].score = locals.scores[results[r].idx]
             /\ \A r, s \in 1..Len(results) :
                    r < s => /\ RLeq(results[s].score, results[r].score)
                             /\ results[r].idx # results[s].idx
             /\ \A p \in PositivePositions \ ReturnedPositions :
                    \A r \in 1..Len(results) : RLeq(locals.scores[p], results[r].score)

\* C14 witness: the top_k best documents of a baseline search held a document
\* whose score is not positive, and two documents with different positive
\* scores came back.
C14_Witness ==
    /\ pc = "baseline"
    /\ top_k <= Len(circuits)
    /\ Len(results) >= 2
    /\ Len(results) < top_k
    /\ RLess(results[2].score, results[1].score)

\* C15: a document with an expected field absent or null causes no error at
\* index build or during search: it is not in the valid subset of the hybrid
\* engine when embedding_text is missing, it is indexed as 'untitled' in the
\* baseline engine when name, description and tags are missing, and its
\* component score is that of an empty inventory when component_breakdown is
\* missing.
C15_MissingFieldsNeverRaise ==
    \A p \in CorpusPositions :
        LET c == Circuit(circuits, p)
            missing == c.absent_keys \cup c.null_keys
        IN  missing # {} =>
                /\ pc # "raised"
                /\ ("embedding_text" \in missing /\ h_state = "ready")
                       => p \notin ValidPositions
                /\ ({"name", "description", "tags"} \subseteq missing /\ b_state = "ready")
                       => b_corpus[p + 1] = UNTITLED
                /\ ("component_breakdown" \in missing /\ pc = "hybrid")
                       => locals.component_scores[p]
                              = _calculate_component_score(
                                    [component_breakdown |-> {}],
                                    _detect_component_intent(query))

QueryCounter == <<"c", "o", "u", "n", "t", "e", "r">>

\* the query 'counter' has been searched over the corpus of the counter and
\* the full adder
CounterSearched ==
    /\ pc = "hybrid"
    /\ circuits = CounterCorpus
    /\ query = QueryCounter

C17_FinalIsSemanticOnly ==
    (pc = "hybrid" /\ _detect_component_intent(query) = None) =>
        \A p \in CorpusPositions :
            locals.keyword_scores_full[p] = RZero
                => locals.final_scores[p]
                       = RMul(Rat(45, 100), locals.semantic_scores_full[p])

\* C17 amended: when no intent is detected the component score is 0.5, and a
\* document whose keyword score is 0 has the final score
\* 0.45 * semantic + 0.05; the final score is 0.45 * semantic for a document
\* whose keyword score and component score are both 0.
C17_FinalIsSemanticPlusNeutral ==
    pc = "hybrid" =>
        \A p \in CorpusPositions :
            locals.keyword_scores_full[p] = RZero =>
                /\ _detect_component_intent(query) = None
                       => /\ locals.component_scores[p] = RHalf
                          /\ locals.final_scores[p]
                                 = RAdd(RMul(Rat(45, 100), locals.semantic_scores_full[p]),
                                        Rat(5, 100))
                /\ locals.component_scores[p] = RZero
                       => locals.final_scores[p]
                              = RMul(Rat(45, 100), locals.semantic_scores_full[p])

\* C17 witness: a query with tokens and without intent has been searched; a
\* valid document with the semantic score 1 shares no term with it, and
\* another document has a keyword score other than 0.
C17_Witness ==
    /\ pc = "hybrid"
    /\ tokenize(query) # <<>>
    /\ _detect_component_intent(query) = None
    /\ \E p \in ValidPositions :
           /\ locals.keyword_scores_full[p] = RZero
           /\ locals.semantic_scores_full[p] = ROne
    /\ \E p \in ValidPositions : locals.keyword_scores_full[p] # RZero

\* C18: over an empty corpus, or a corpus without a lexically valid
\* document, HybridSearch is constructed without error, and search returns
\* for any query with every keyword score equal to 0.
C18_NoValidDocumentHandled ==
    (program = "hybrid_search" /\ ValidIndicesUpTo(circuits, Len(circuits)) = <<>>) =>
        /\ h_state # "failed"
        /\ pc # "raised"
        /\ pc = "hybrid" =>
               \A p \in CorpusPositions : locals.keyword_scores_full[p] = RZero

\* C19: for a query with tokens, when the maximum raw lexical score over the
\* valid subset is positive each keyword score is the raw score divided by
\* the maximum, the best document gets 1, every keyword score is in [0, 1] and
\* the order of the documents is that of the raw scores; when the maximum is
\* not positive the scores are left as they are, all 0.
C19_MaxNormalisation ==
    (pc = "hybrid" /\ tokenize(query) # <<>>) =>
        LET raw == locals.bm25_scores
            kv == locals.keyword_scores_valid
            V == Positions(Len(valid_indices))
            mx == ArrayMax(raw, V)
        IN  IF RLess(RZero, mx)
            THEN /\ \A i \in V : kv[i] = RDiv(raw[i], mx)
                 /\ \A i \in V : raw[i] = mx => kv[i] = ROne
                 /\ \A i \in V : RLeq(RZero, kv[i]) /\ RLeq(kv[i], ROne)
                 /\ \A i, j \in V : RLess(raw[i], raw[j]) <=> RLess(kv[i], kv[j])
            ELSE /\ kv = raw
                 /\ \A i \in V : kv[i] = RZero

\* C20: valid_indices is strictly increasing, holds positions of the corpus
\* only and is as long as the list of indexed texts, whose i-th text is the
\* enriched text of the document at valid_indices[i]; search writes the i-th
\* score of the valid subset at position valid_indices[i] of the full array
\* and writes no other position.
C20_ScatterByRecordedPosition ==
    h_state = "ready" =>
        /\ Len(valid_indices) = Len(enriched_texts)
        /\ Len(h_bm25) = Len(enriched_texts)
        /\ \A i \in 1..Len(valid_indices) :
               /\ valid_indices[i] \in CorpusPositions
               /\ enriched_texts[i] = Circuit(circuits, valid_indices[i]).embedding_text
               /\ h_bm25[i] = tokenize(enriched_texts[i])
        /\ \A i, j \in 1..Len(valid_indices) : i < j => valid_indices[i] < valid_indices[j]
        /\ pc = "hybrid" =>
               /\ \A i \in 1..Len(valid_indices) :
                      locals.keyword_scores_full[valid_indices[i]]
                          = locals.keyword_scores_valid[i - 1]
               /\ \A p \in CorpusPositions \ ValidPositions :
                      locals.keyword_scores_full[p] = RZero

\* C20 witness: the valid subset holds two documents that stand behind a
\* document left out of it, and search has written two different scores
\* other than 0 for them.
C20_Witness ==
    /\ pc = "hybrid"
    /\ Len(valid_indices) = 2
    /\ valid_indices[1] > 0
    /\ locals.keyword_scores_valid[0] # RZero
    /\ locals.keyword_scores_valid[1] # RZero
    /\ locals.keyword_scores_valid[0] # locals.keyword_scores_valid[1]
    /\ locals.keyword_scores_full[valid_indices[2]] = locals.keyword_scores_valid[1]

\* C21: HybridSearch.search computes a semantic score for every one of the N
\* documents, those left out of the valid subset included; such a document is
\* ranked with final = 0.45 * semantic + 0.10 * component, its keyword score
\* being 0, and every entry returned carries the final score of its document.
C21_InvalidRankedBySemantic ==
    pc = "hybrid" =>
        /\ DOMAIN locals.semantic_scores_full = CorpusPositions
        /\ DOMAIN locals.final_scores = CorpusPositions
        /\ \A p \in CorpusPositions \ ValidPositions :
               locals.final_scores[p]
                   = RAdd(RMul(Rat(45, 100), locals.semantic_scores_full[p]),
                          RMul(Rat(10, 100), locals.component_scores[p]))
        /\ \A r \in 1..Len(results) :
               /\ results[r].idx \in CorpusPositions
               /\ results[r].scores.final = locals.final_scores[results[r].idx]
               /\ results[r].scores.semantic = locals.semantic_scores_full[results[r].idx]

\* C21 witness: a document left out of the valid subset is returned first,
\* ahead of a document of the valid subset that shares a term with the query.
C21_Witness ==
    /\ pc = "hybrid"
    /\ Len(results) >= 2
    /\ results[1].idx \notin ValidPositions
    /\ results[1].scores.semantic = ROne
    /\ results[2].idx \in ValidPositions
    /\ results[2].scores.keyword # RZero

\* C23: a call of search, in either engine, leaves the loaded state as it
\* was: the corpus, the embedding matrix, valid_indices, the indexed texts and
\* the lexical index are after every step what they were once the constructor
\* had returned; the score arrays of a call exist only during the call.
C23_SearchLeavesLoadedState ==
    [][/\ circuits' = circuits
       /\ embeddings' = embeddings
       /\ h_state = "ready" =>
              /\ h_state' = "ready"
              /\ valid_indices' = valid_indices
              /\ enriched_texts' = enriched_texts
              /\ h_bm25' = h_bm25
       /\ b_state = "ready" =>
              /\ b_state' = "ready"
              /\ b_corpus' = b_corpus
              /\ b_bm25' = b_bm25
       /\ pc = "idle" => locals = <<>>
       /\ pc' = "idle" => locals' = <<>>]_vars

\* C23 witness: a search over a corpus of three documents, one of them in
\* the valid subset, has returned three entries, and the loaded state is the
\* one the constructor made.
C23_Witness ==
    /\ pc = "hybrid"
    /\ Len(circuits) = 3
    /\ Len(valid_indices) = 1
    /\ Len(results) = 3
    /\ enriched_texts = <<Circuit(circuits, valid_indices[1]).embedding_text>>
    /\ h_bm25 = <<tokenize(enriched_texts[1])>>

\* the positions the hybrid engine's constructor admits to its valid subset
HybridValidPositions == Range(ValidIndicesUpTo(circuits, Len(circuits)))

\* C24 as stated: the baseline engine is the lexical channel of the hybrid
\* engine with the filter on non-positive scores: it indexes the same
\* documents with the same text per document and the same tokenizer, so it
\* returns only documents of the hybrid engine's valid subset.
C24_BaselineIsLexicalChannel ==
    b_state = "ready" =>
        /\ b_corpus = EnrichedTextsUpTo(circuits, Len(circuits))
        /\ b_bm25 = [i \in 1..Len(b_corpus) |-> tokenize(b_corpus[i])]
        /\ pc = "baseline" =>
               \A r \in 1..Len(results) :
                   /\ results[r].idx \in HybridValidPositions
                   /\ RLess(RZero, results[r].score)

\* C24 amended: the baseline engine shares the tokenizer and the filter on
\* non-positive scores with the hybrid engine's lexical channel, and not the
\* index: it indexes every one of the N documents, by the text made of name,
\* description without tags and tag list ('untitled' when all are empty), and
\* it ranks by the raw BM25 score; a document it returns has a positive score
\* and shares a term of that text with the query.
C24_BaselineOwnIndex ==
    b_state = "ready" =>
        /\ Len(b_corpus) = Len(circuits)
        /\ Len(b_bm25) = Len(circuits)
        /\ \A p \in CorpusPositions :
               /\ b_corpus[p + 1] = CorpusText(Circuit(circuits, p))
               /\ b_bm25[p + 1] = tokenize(b_corpus[p + 1])
        /\ pc = "baseline" =>
               \A r \in 1..Len(results) :
                   /\ results[r].score = locals.scores[results[r].idx]
                   /\ RLess(RZero, results[r].score)
                   /\ SharesTerm(b_bm25[results[r].idx + 1], tokenize(query))

\* C24 witness: the baseline engine returns a document that the hybrid
\* engine leaves out of its valid subset, found by a term of its description.
C24_Witness ==
    /\ pc = "baseline"
    /\ Len(results) >= 1
    /\ results[1].idx \notin HybridValidPositions
    /\ b_corpus[results[1].idx + 1] # Circuit(circuits, results[1].idx).embedding_text

-----------------------------------------------------------------------------
(* Claims about the helpers (checked under SpecFn) *)

HitRules(q) ==
    {i \in 1..Len(COMPONENT_KEYWORDS) :
         IsSubstring(COMPONENT_KEYWORDS[i].keyword, Lower(q))}

MatchSet(rule) == {rule.match[j] : j \in 1..Len(rule.match)}

\* C6: _calculate_component_score returns 0.5 for no intent; otherwise 1.0 if a
\* match-set type is in the document's component_breakdown (also when the
\* opposite type is there too), 0.0 if none is but the rule's opposite type
\* is, and 0.5 otherwise; no other value is produced.
C6_ComponentScoreCases ==
    call.fn = "score" =>
        LET bd == call.circuit.component_breakdown
            rule == call.intent
        IN  /\ call.score \in {RZero, RHalf, ROne}
            /\ rule = None => call.score = RHalf
            /\ rule # None =>
                  /\ (MatchSet(rule) \cap bd # {}) => call.score = ROne
                  /\ (MatchSet(rule) \cap bd = {} /\ rule.opposite \in bd)
                         => call.score = RZero
                  /\ (MatchSet(rule) \cap bd = {} /\ rule.opposite \notin bd)
                         => call.score = RHalf

\* C6 witness: a document holding both a match-set type and the opposite type
\* has been scored 1.0.
C6_Witness ==
    /\ call.fn = "score"
    /\ call.intent # None
    /\ call.intent.opposite \in call.circuit.component_breakdown
    /\ MatchSet(call.intent) \cap call.circuit.component_breakdown # {}
    /\ call.score = ROne

\* C7: _detect_component_intent returns the rule of the first keyword, in
\* table order, that is a substring of the lowercased query, and no intent
\* exactly when no keyword occurs in it.
C7_FirstRuleInTableOrder ==
    call.fn = "detect" =>
        LET hits == HitRules(call.text)
        IN  /\ (call.intent = None) <=> (hits = {})
            /\ hits # {} =>
                  \E i \in hits :
                      /\ \A j \in hits : i <= j
                      /\ call.intent = COMPONENT_KEYWORDS[i]

\* C7 witness: the returned rule's keyword occurs in the query to the right of
\* another table keyword, and the query had to be lowercased to match.
C7_Witness ==
    /\ call.fn = "detect"
    /\ call.intent # None
    /\ \E j \in HitRules(call.text) :
           FirstOccurrence(COMPONENT_KEYWORDS[j].keyword, Lower(call.text))
               < FirstOccurrence(call.intent.keyword, Lower(call.text))
    /\ ~IsSubstring(call.intent.keyword, call.text)

IsLowerAlnum(c) == c \in LowerLetters \cup Digits

\* C9: every token returned by tokenize is lowercase, has length >= 2 and
\* consists only of letters and digits; empty input yields no token.
C9_TokensLowerAlnum ==
    call.fn = "tokenize" =>
        /\ \A i \in 1..Len(call.tokens) :
               /\ Len(call.tokens[i]) >= 2
               /\ \A j \in 1..Len(call.tokens[i]) : IsLowerAlnum(call.tokens[i][j])
        /\ call.text = <<>> => call.tokens = <<>>

\* C10: tokenize(' '.join(tokenize(x))) = tokenize(x) for every text x.
C10_TokenizeIdempotent ==
    call.fn = "tokenize" => call.retokens = call.tokens

\* C10 witness: a text that tokenize changed (its tokens re-joined differ
\* from it) and that yields two tokens.
C10_Witness ==
    /\ call.fn = "tokenize"
    /\ Len(call.tokens) >= 2
    /\ Join(call.tokens) # call.text
    /\ call.retokens = call.tokens

\* C22: the tokenizer of hybrid_search.py and the tokenizer of
\* baseline_search.py give the same token list for every text.
C22_TokenizersAgree ==
    call.fn = "tokenize" => call.baseline_tokens = call.tokens

\* C22 witness: both tokenizers were applied to a text with an uppercase
\* letter, a punctuation mark and a one-character token, and gave one token.
C22_Witness ==
    /\ call.fn = "tokenize"
    /\ call.text = <<"a", "B", "-", "7", " ">>
    /\ call.baseline_tokens = << <<"a", "b">> >>
    /\ call.tokens = << <<"a", "b">> >>

\* the place of the rule keyed k in the table
RuleIndex(k) ==
    CHOOSE i \in 1..Len(COMPONENT_KEYWORDS) : COMPONENT_KEYWORDS[i].keyword = k

\* the lowercased query holds the keyword of a rule that stands before the
\* rule keyed k
EarlierRuleHit(k, ql) ==
    \E i \in 1..(RuleIndex(k) - 1) : IsSubstring(COMPONENT_KEYWORDS[i].keyword, ql)

\* a document that holds a Demultiplexer and no Multiplexer
DemuxOnlyCircuit == [component_breakdown |-> {"Demultiplexer"}, null_keys |-> {}]

\* the part of C25 about the rules keyed 'demultiplexer' and 'demux'
DemuxRulesShadowed ==
    LET ql == Lower(call.text)
    IN  /\ call.intent # None =>
               call.intent.keyword \notin {KW_demultiplexer, KW_demux}
        /\ (IsSubstring(KW_demultiplexer, ql) \/ IsSubstring(KW_demux, ql)) =>
               /\ IsSubstring(KW_multiplexer, ql) \/ IsSubstring(KW_mux, ql)
               /\ call.intent # None
               /\ call.intent.match = <<"Multiplexer">>
               /\ call.intent.opposite = "Demultiplexer"
               /\ _calculate_component_score(DemuxOnlyCircuit, call.intent) = RZero

\* C25 as stated: _detect_component_intent never returns the rules keyed
\* 'demultiplexer' or 'demux' (a query that holds one of them holds
\* 'multiplexer' or 'mux' and is scored with match Multiplexer, opposite
\* Demultiplexer, 0.0 for a document with a Demultiplexer and no Multiplexer),
\* and a query that holds both 'display' and 'seven segment' gets the rule
\* keyed 'display'.
C25_DisplayRuleForBoth ==
    call.fn = "detect" =>
        /\ DemuxRulesShadowed
        /\ (IsSubstring(KW_display, Lower(call.text))
               /\ IsSubstring(KW_seven_segment, Lower(call.text))) =>
               (call.intent # None /\ call.intent.keyword = KW_display)

\* C25 amended: the rules keyed 'demultiplexer', 'demux' and 'seven segment'
\* are never returned in favour of a rule that stands before them; a query that
\* holds both 'display' and 'seven segment' gets the rule keyed 'display' when
\* it holds no keyword of the eight rules before it, and otherwise one of those
\* eight rules.
C25_ShadowedRules ==
    call.fn = "detect" =>
        /\ DemuxRulesShadowed
        /\ (IsSubstring(KW_display, Lower(call.text))
               /\ IsSubstring(KW_seven_segment, Lower(call.text))) =>
               /\ call.intent # None
               /\ call.intent.keyword # KW_seven_segment
               /\ IF EarlierRuleHit(KW_display, Lower(call.text))
                  THEN RuleIndex(call.intent.keyword) < RuleIndex(KW_display)
                  ELSE call.intent.keyword = KW_display

\* C25 witness: the query 'DEMUX' was read as the rule keyed 'mux'.
C25_Witness ==
    /\ call.fn = "detect"
    /\ call.text = <<"D", "E", "M", "U", "X">>
    /\ call.intent = COMPONENT_KEYWORDS[RuleIndex(KW_mux)]
    /\ _calculate_component_score(DemuxOnlyCircuit, call.intent) = RZero

-----------------------------------------------------------------------------
(* Claims about _make_request (checked under SpecRequest) *)

\* the HTTP attempts of the call of _make_request, and the error entries it
\* has appended
ErrorsOfCall == Len(errors) - req.errors_before

\* the safety part of C26
MakeRequestBounded ==
    req.status # "none" =>
        /\ req.attempt = Len(req.seen)
        /\ req.attempt <= MAX_RETRIES
        /\ stats.total_requests = req.requests_before + req.attempt
        /\ ErrorsOfCall \in {0, 1}
        /\ req.status = "running" =>
               /\ req.attempt < MAX_RETRIES
               /\ ErrorsOfCall = 0
               /\ \A i \in 1..req.attempt : req.seen[i].kind # "ok"
        /\ req.status = "returned" =>
               /\ req.attempt >= 1
               /\ \A i \in 1..(req.attempt - 1) : req.seen[i].kind # "ok"
               /\ LET final == req.seen[req.attempt]
                  IN  /\ req.result = (IF final.kind = "ok" THEN final.body ELSE NoData)
                      /\ req.attempt < MAX_RETRIES =>
                             \/ final.kind = "ok"
                             \/ final.kind = "denied" /\ program # "project_download"
                      /\ ErrorsOfCall = 1 <=>
                             /\ req.attempt = MAX_RETRIES
                             /\ \/ final.kind \in {"server_error", "no_connection"}
                                \/ final.kind = "denied" /\ program = "project_download"
               /\ (\A i \in 1..req.attempt : req.seen[i].kind = "rate_limited") =>
                      /\ req.attempt = MAX_RETRIES
                      /\ req.result = NoData
                      /\ ErrorsOfCall = 0

\* C26: every call of _make_request returns, after at least one and at most
\* MAX_RETRIES attempts with one total_requests increment each; it returns the
\* JSON body of the first attempt answered with one and None once the third
\* attempt has failed; it appends to errors at most once, and only when the
\* last attempt raised a request exception, so not when every attempt was
\* answered 429.
C26_MakeRequestTerminates ==
    /\ []MakeRequestBounded
    /\ (req.status = "running") ~> (req.status = "returned")

\* C26 witness: a call was answered 429, then raised, and returned the body
\* of its third attempt without an error entry.
C26_Witness ==
    /\ req.status = "returned"
    /\ req.attempt = MAX_RETRIES
    /\ req.seen[1].kind = "rate_limited"
    /\ req.seen[2].kind = "no_connection"
    /\ req.seen[3] = [kind |-> "ok", body |-> "body_b"]
    /\ req.result = "body_b"
    /\ ErrorsOfCall = 0

-----------------------------------------------------------------------------
(* Claims about collect_metadata (checked under SpecCollect) *)

\* C27: at every point of collect_metadata len(collected) <= target_count
\* and every collected record comes from a project whose project_access_type
\* is 'Public'; the pages are requested with the numbers 1, 2, 3, ... in this
\* order, and no page is requested after the first page whose request fails,
\* that holds no projects, or whose links hold no next URL.
C27_CollectBounded ==
    /\ Len(job.collected) <= job.target_count
    /\ \A i \in 1..Len(job.collected) :
           job.collected[i].project_access_type = "Public"
    /\ job.requested = [i \in 1..Len(job.requested) |-> i]
    /\ Len(job.pages) = Len(job.requested)
    /\ \A i \in 1..(Len(job.pages) - 1) : job.pages[i] = "url"
    /\ job.page_number = 1 + Cardinality({i \in 1..Len(job.pages) :
                                              job.pages[i] \in NextLinks})

\* C27 witness: the collector stopped after its second page, which had no
\* next URL, with fewer records than target_count, having skipped a private
\* project.
C27_Witness ==
    /\ job.status = "done"
    /\ job.requested = <<1, 2>>
    /\ job.pages = <<"url", "null">>
    /\ Len(job.collected) = 2
    /\ job.target_count = 3
    /\ job.collected[2].slot = 2

-----------------------------------------------------------------------------
(* Claims about extract_scopes (checked under SpecExtract) *)

\* the fields of a record other than scope_names
OtherFields(c) == [f \in DOMAIN c \ {"scope_names"} |-> c[f]]

\* the names a body yields: of its named scopes that stand before the first
\* scope with a number for a name, those not in the excluded list whose
\* stripped name is longer than 2, stripped and in the order of the body
NamesOfBody(body) ==
    LET scopes == body.scopes
        stops == {i \in 1..Len(scopes) : scopes[i].kind = "number_name"}
        kept == {i \in 1..Len(scopes) :
                     /\ \A j \in stops : i < j
                     /\ scopes[i].kind = "named"
                     /\ scopes[i].name \notin ExcludedScopeNames
                     /\ Len(Strip(scopes[i].name)) > 2}
        Nth(S, n) == CHOOSE i \in S : Cardinality({j \in S : j < i}) = n - 1
    IN  [n \in 1..Cardinality(kept) |-> Strip(scopes[Nth(kept, n)].name)]

\* what holds of the records after every round: one record per circuit seen,
\* in the order of the selection, with the circuit's fields; the record of the
\* last round holds the names of the body fetched in it, none after a failed
\* fetch
RecordsOfRounds ==
    /\ job.selected = job.given
    /\ Len(job.results) = job.i - 1
    /\ Len(job.fetched) = Len(job.results)
    /\ stats.successful_fetches + stats.failed_fetches = Len(job.results)
    /\ \A k \in 1..Len(job.results) :
           /\ OtherFields(job.results[k]) = OtherFields(job.given[k])
           /\ "scope_names" \in DOMAIN job.results[k]
           /\ ~job.fetched[k] => job.results[k].scope_names = <<>>
           /\ \A j \in 1..Len(job.results[k].scope_names) :
                  Len(job.results[k].scope_names[j]) > 2
    /\ job.results # <<>> =>
           job.results[Len(job.results)].scope_names = NamesOfBody(job.circuit_data)
    /\ stats.failed_fetches = Cardinality({k \in 1..Len(job.fetched) : ~job.fetched[k]})
    /\ job.status = "returned" =>
           /\ Len(job.results) = Len(job.given)
           /\ stats.successful_fetches + stats.failed_fetches = Len(job.given)

\* C28: extract_scopes returns one record per selected circuit, in the order
\* of the selection, whether or not the fetch succeeded: a record of a failed
\* fetch holds the circuit's fields and scope_names = [], a record of a
\* successful fetch holds them and the names extracted; at the return
\* successful_fetches + failed_fetches is the number of selected circuits; the
\* circuits of the selection are as they were given; a round appends one
\* record and leaves the records before it as they are.
C28_OneRecordPerCircuit ==
    /\ []RecordsOfRounds
    /\ [][/\ Len(job'.results) = Len(job.results) + 1
          /\ SubSeq(job'.results, 1, Len(job.results)) = job.results]_<<job.results>>

\* C28 witness: extract_scopes has returned two records, the first of a
\* failed fetch of a circuit that came with scope_names, the second of a
\* successful fetch with one name.
C28_Witness ==
    /\ job.status = "returned"
    /\ Len(job.given) = 2
    /\ job.fetched = <<FALSE, TRUE>>
    /\ Len(job.circuit_data.scopes) = 2
    /\ job.given[1].id = 2
    /\ job.results[1].scope_names = <<>>
    /\ job.results[2].scope_names = << <<"a", "l", "u">> >>
    /\ stats.successful_fetches = 1
    /\ stats.failed_fetches = 1

-----------------------------------------------------------------------------
(* Claims about generate_embeddings (checked under SpecEmbed) *)

\* no part is produced for the circuit: no name that is not generic, no
\* description text, no scope names, no tags, an empty component breakdown
NoPartProduced(c) ==
    /\ ~(Holds(c, "name") /\ c.name # <<>> /\ ~_is_generic_name(c.name))
    /\ ~(Holds(c, "description") /\ generator_clean_html(c.description) # <<>>)
    /\ ~(Holds(c, "scope_names") /\ c.scope_names # <<>>)
    /\ ~(Holds(c, "tags") /\ c.tags # <<>>)
    /\ DOMAIN c.component_breakdown = {}

\* C29: create_embedding_text never returns the empty string: it returns
\* 'Empty circuit' exactly when no part was produced and otherwise a text that
\* ends with '.'; generate_embeddings keeps the positions: the i-th text is
\* built from the i-th circuit, row i encodes the i-th text and the i-th
\* enriched circuit carries it, so there are as many rows as circuits.
C29_TextsNeverEmptyAligned ==
    /\ job.status \in {"texts", "encoded", "saved"} =>
           /\ Len(job.embedding_texts) = Len(job.circuits)
           /\ \A i \in 1..Len(job.circuits) :
                  LET t == job.embedding_texts[i]
                      c == job.circuits[i]
                  IN  /\ t # <<>>
                      /\ t = EmptyCircuitText <=> NoPartProduced(c)
                      /\ ~NoPartProduced(c) => t[Len(t)] = "."
                      /\ \E o \in IterationOrders : t = create_embedding_text(c, o)
    /\ job.status \in {"encoded", "saved"} =>
           /\ Len(job.embeddings) = Len(job.circuits)
           /\ \A i \in 1..Len(job.circuits) :
                  job.embeddings[i].encoded = job.embedding_texts[i]
    /\ job.status = "saved" =>
           /\ Len(job.circuits_enriched) = Len(job.circuits)
           /\ \A i \in 1..Len(job.circuits) :
                  /\ job.circuits_enriched[i].circuit = job.circuits[i]
                  /\ job.circuits_enriched[i].embedding_text = job.embedding_texts[i]

\* C29 witness: two circuits were enriched and encoded, the first without
\* parts, the second a clocked circuit with scope names whose text ends with
\* the list of its components.
C29_Witness ==
    /\ job.status = "saved"
    /\ Len(job.circuits) = 2
    /\ job.circuits_enriched[1].embedding_text = EmptyCircuitText
    /\ job.circuits[2].scope_names # <<>>
    /\ Len(job.circuits_enriched[2].embedding_text) > 60
    /\ job.embeddings[2].encoded # job.embeddings[1].encoded
    /\ LET t == job.embeddings[2].encoded
       IN  SubSeq(t, Len(t) - 1, Len(t)) = <<"s", ".">>

====
